---- MODULE Spec2Model ----
(***************************************************************************)
(* ReportCopillot: the report pipeline (orchestrator.run_pipeline), the    *)
(* section splitter/joiner (utils/sections.py) and the quality gate        *)
(* (utils/quality_gate.py, utils/section_validator.py).                    *)
(*                                                                         *)
(* A text is a sequence of one-character strings; "\n" is the line break.  *)
(* A header name is a text as well.  A python dict is a function whose     *)
(* domain is its key set (the empty dict is <<>>); a dict whose iteration  *)
(* order matters (quality.min_words) is a sequence of <<key, value>>.      *)
(***************************************************************************)
EXTENDS Integers, Sequences, FiniteSets, TLC

\* ------------------------------------------------------------------ bounds

\* longest reply of the generation backend, in lines
MaxLines == 2

\* longest text handed to split_by_headers, in characters
MaxSplitLen == 5

\* longest document handed to evaluate_report_quality, in characters
MaxGateLen == 4

\* longest section body handed to join_sections: with one header, with two
MaxValueLen == 3
MaxPairLen == 1

\* calls of cancel_job for the job
MaxCancels == 1
\* the longest report.txt a regeneration writes, in characters
MaxReportLen == 14

\* the rate limiter: RUN_RATE_LIMIT_WINDOW_SECONDS and RUN_RATE_LIMIT_MAX_REQUESTS
\* of the environment, the last time of the clock, the most calls that pass
\* for an address
RATE_LIMIT_WINDOW_SECONDS == 1
RATE_LIMIT_MAX_REQUESTS == 2
MaxClock == 3
MaxPassed == 4

\* ------------------------------------------------------------------ strings

NL == "\n"
CR == "\r"
SP == " "
COLON == ":"

\* str.isspace for the characters of the model's alphabet
IsSpace(c) == c \in {SP, NL, CR}

\* str.lower, one character
LowerChar(c) == IF c = "A" THEN "a" ELSE IF c = "B" THEN "b" ELSE IF c = "X" THEN "x" ELSE c

\* str.lower
lower(s) == [i \in 1..Len(s) |-> LowerChar(s[i])]

RECURSIVE lstrip(_)
lstrip(s) == IF s = <<>> THEN s ELSE IF IsSpace(Head(s)) THEN lstrip(Tail(s)) ELSE s

RECURSIVE rstrip(_)
rstrip(s) ==
  IF s = <<>> THEN s
  ELSE IF IsSpace(s[Len(s)]) THEN rstrip(SubSeq(s, 1, Len(s) - 1)) ELSE s

\* str.strip
strip(s) == rstrip(lstrip(s))

RECURSIVE SplitLinesAcc(_, _, _)
SplitLinesAcc(s, cur, acc) ==
  IF s = <<>> THEN (IF cur = <<>> THEN acc ELSE Append(acc, cur))
  ELSE IF Head(s) = NL THEN SplitLinesAcc(Tail(s), <<>>, Append(acc, cur))
  ELSE IF Head(s) = CR
       THEN SplitLinesAcc(IF Len(s) >= 2 /\ s[2] = NL THEN Tail(Tail(s)) ELSE Tail(s),
                          <<>>, Append(acc, cur))
  ELSE SplitLinesAcc(Tail(s), Append(cur, Head(s)), acc)

\* str.splitlines: "\n", "\r" and "\r\n" end a line; no empty last line after a
\* final line break
splitlines(s) == SplitLinesAcc(s, <<>>, <<>>)

RECURSIVE join(_, _)
\* sep.join(parts)
join(sep, parts) ==
  IF parts = <<>> THEN <<>>
  ELSE IF Len(parts) = 1 THEN parts[1]
  ELSE parts[1] \o sep \o join(sep, Tail(parts))

\* str.endswith(":")
EndsWithColon(s) == s # <<>> /\ s[Len(s)] = COLON

\* substring test: needle in hay
Contains(hay, needle) ==
  \E i \in 1..(Len(hay) - Len(needle) + 1) : SubSeq(hay, i, i + Len(needle) - 1) = needle

RECURSIVE SplitWordsAcc(_, _, _)
SplitWordsAcc(s, cur, acc) ==
  IF s = <<>> THEN (IF cur = <<>> THEN acc ELSE Append(acc, cur))
  ELSE IF IsSpace(Head(s))
       THEN SplitWordsAcc(Tail(s), <<>>, IF cur = <<>> THEN acc ELSE Append(acc, cur))
       ELSE SplitWordsAcc(Tail(s), Append(cur, Head(s)), acc)

\* str.split(): the maximal runs of non-space characters
split(s) == SplitWordsAcc(s, <<>>, <<>>)

Range(f) == {f[i] : i \in DOMAIN f}

\* dict.get(key, default)
Get(d, k, default) == IF k \in DOMAIN d THEN d[k] ELSE default

\* ------------------------------------------------------------------ utils/sections.py

RECURSIVE ScanLines(_, _, _, _)
\* the loop of split_by_headers: current is <<>> (None) or <<name>>
ScanLines(lines, header_set, current, out_lines) ==
  IF lines = <<>> THEN out_lines
  ELSE
    LET ln == Head(lines)
        stripped == strip(ln)
        name == strip(SubSeq(stripped, 1, Len(stripped) - 1))
    IN IF EndsWithColon(stripped) /\ name \in header_set
       THEN ScanLines(Tail(lines), header_set, <<name>>, out_lines)
       ELSE IF current # <<>>
            THEN ScanLines(Tail(lines), header_set, current,
                           [out_lines EXCEPT ![current[1]] = Append(@, ln)])
            ELSE ScanLines(Tail(lines), header_set, current, out_lines)


\* faulty variant of split_by_headers: the bodies are not trimmed
split_by_headers_Untrimmed(report_text, headers) ==
  LET lines == splitlines(report_text)
      header_set == {strip(h) : h \in Range(headers)}
      out_lines == ScanLines(lines, header_set, <<>>, [h \in Range(headers) |-> <<>>])
  IN [k \in Range(headers) |-> join(<<NL>>, out_lines[k])]

\* headers are names without surrounding white space, as in templates.TEMPLATES

split_by_headers(report_text, headers) ==
  LET lines == splitlines(report_text)
      header_set == {strip(h) : h \in Range(headers)}
      out_lines == ScanLines(lines, header_set, <<>>, [h \in Range(headers) |-> <<>>])
  IN [k \in Range(headers) |-> strip(join(<<NL>>, out_lines[k]))]

RECURSIVE JoinParts(_, _)
JoinParts(sections, headers) ==
  IF headers = <<>> THEN <<>>
  ELSE <<Head(headers) \o <<COLON>>, strip(Get(sections, Head(headers), <<>>)), <<>>>>
       \o JoinParts(sections, Tail(headers))


\* faulty variant of join_sections: the parts are joined by spaces
join_sections_OnOneLine(sections, headers) == strip(join(<<SP>>, JoinParts(sections, headers)))

join_sections(sections, headers) == strip(join(<<NL>>, JoinParts(sections, headers)))

\* ------------------------------------------------------------------ utils/section_validator.py

RECURSIVE SkipSpaces(_, _)
\* where a greedy \s* that starts at position i stops
SkipSpaces(text, i) ==
  IF i <= Len(text) /\ IsSpace(text[i]) THEN SkipSpaces(text, i + 1) ELSE i

\* ^ under re.MULTILINE
LineStart(text, i) == i = 1 \/ text[i - 1] = NL

\* $ under re.MULTILINE
LineEnd(text, p) == p = Len(text) + 1 \/ text[p] = NL

\* re.search(rf"(?im)^\s*{re.escape(h)}\s*:\s*$", text) is not None
HeaderPresent(text, h) ==
  \E i \in 1..(Len(text) + 1) :
    /\ LineStart(text, i)
    /\ LET j == SkipSpaces(text, i)
           k == SkipSpaces(text, j + Len(h))
       IN /\ j + Len(h) - 1 <= Len(text)
          /\ lower(SubSeq(text, j, j + Len(h) - 1)) = lower(h)
          /\ k <= Len(text)
          /\ text[k] = COLON
          /\ \E p \in (k + 1)..(Len(text) + 1) :
               /\ \A q \in (k + 1)..(p - 1) : IsSpace(text[q])
               /\ LineEnd(text, p)

find_missing_headers(report_text, required_headers) ==
  SelectSeq(required_headers, LAMBDA h : ~HeaderPresent(report_text, h))

\* ------------------------------------------------------------------ utils/quality_gate.py


_word_count(text) == Len(split(text))

Issue(kind, section, words, expected, terms) ==
  [kind |-> kind, section |-> section, words |-> words, expected |-> expected, terms |-> terms]

MissingHeaderIssues(missing) ==
  [i \in 1..Len(missing) |-> Issue("missing_header", missing[i], 0, 0, <<>>)]

RECURSIVE TooShortIssues_AtMost(_, _)
\* faulty variant of TooShortIssues: a body of exactly the minimum is too short
TooShortIssues_AtMost(min_words, sections) ==
  IF min_words = <<>> THEN <<>>
  ELSE
    LET sec == Head(min_words)[1]
        min_n == Head(min_words)[2]
        body == strip(Get(sections, sec, <<>>))
    IN (IF body # <<>> /\ _word_count(body) <= min_n
        THEN <<Issue("too_short", sec, _word_count(body), min_n, <<>>)>>
        ELSE <<>>)
       \o TooShortIssues_AtMost(Tail(min_words), sections)

RECURSIVE TooShortIssues(_, _)
\* the loop over quality.min_words.items()
TooShortIssues(min_words, sections) ==
  IF min_words = <<>> THEN <<>>
  ELSE
    LET sec == Head(min_words)[1]
        min_n == Head(min_words)[2]
        body == strip(Get(sections, sec, <<>>))
    IN (IF body # <<>> /\ _word_count(body) < min_n
        THEN <<Issue("too_short", sec, _word_count(body), min_n, <<>>)>>
        ELSE <<>>)
       \o TooShortIssues(Tail(min_words), sections)

RECURSIVE MissingTermIssues(_, _)
\* the loop over quality.required_terms_by_section.items()
MissingTermIssues(required_terms_by_section, sections) ==
  IF required_terms_by_section = <<>> THEN <<>>
  ELSE
    LET sec == Head(required_terms_by_section)[1]
        raw == Head(required_terms_by_section)[2]
        body == lower(Get(sections, sec, <<>>))
        terms == [i \in 1..Len(raw) |-> lower(raw[i])]
    IN (IF body # <<>> /\ terms # <<>> /\ ~(\E i \in 1..Len(terms) : Contains(body, terms[i]))
        THEN <<Issue("missing_term", sec, 0, 0, terms)>>
        ELSE <<>>)
       \o MissingTermIssues(Tail(required_terms_by_section), sections)

RECURSIVE MissingGlobalTermIssues(_, _)
\* the loop over quality.required_global_terms
MissingGlobalTermIssues(required_global_terms, text_l) ==
  IF required_global_terms = <<>> THEN <<>>
  ELSE
    LET t == lower(Head(required_global_terms))
    IN (IF ~Contains(text_l, t)
        THEN <<Issue("missing_global_term", <<"*">>, 0, 0, <<t>>)>>
        ELSE <<>>)
       \o MissingGlobalTermIssues(Tail(required_global_terms), text_l)

evaluate_report_quality(report_text, template_cfg) ==
  LET quality_cfg == template_cfg.quality
      required_headers == template_cfg.writer_format
      sections == IF required_headers # <<>>
                  THEN split_by_headers(report_text, required_headers) ELSE <<>>
      missing_headers == IF required_headers # <<>>
                         THEN find_missing_headers(report_text, required_headers) ELSE <<>>
      issues == MissingHeaderIssues(missing_headers)
                \o TooShortIssues(quality_cfg.min_words, sections)
                \o MissingTermIssues(quality_cfg.required_terms_by_section, sections)
                \o MissingGlobalTermIssues(quality_cfg.required_global_terms, lower(report_text))
  IN [ok |-> Len(issues) = 0, issues |-> issues, sections |-> sections]

\* ------------------------------------------------------------------ schemas.py

\* AgentResult.success; error None is <<>>
success(agent, payload) == [ok |-> TRUE, agent |-> agent, payload |-> payload, error |-> <<>>]

\* AgentResult.fail; the payload is the default {}, a detail of None is <<>>
fail(agent, message, detail) ==
  [ok |-> FALSE, agent |-> agent, payload |-> <<>>,
   error |-> <<[message |-> message, detail |-> detail]>>]

\* ------------------------------------------------------------------ utils/llm.py

\* the lines a reply of the generation backend is made of
LineSet == {<<"A", COLON>>, <<"x">>}

\* the non-empty replies of at most MaxLines lines
ReplyTexts == {join(<<NL>>, ls) : ls \in UNION {[1..n -> LineSet] : n \in 1..MaxLines}}

\* the reply to a research, review or diagram prompt
NoteTexts == {<<"x">>}

\* what chat() ends with: the reply (never empty: an empty reply is retried and
\* then raised as LLMError), LLMError after the last attempt, or the
\* RuntimeError of get_client_and_model
chat(replies) ==
  {[raised |-> FALSE, content |-> t, name |-> "", msg |-> ""] : t \in replies}
  \cup {[raised |-> TRUE, content |-> <<>>, name |-> "LLMError",
         msg |-> "LLM request failed after 3 attempts"],
        [raised |-> TRUE, content |-> <<>>, name |-> "RuntimeError",
         msg |-> "Missing LLM_API_KEY in .env"]}

\* faulty variant of ExcDetail: the class name is left out
ExcDetail_MessageOnly(out) == <<out.msg>>

\* f"{type(e).__name__}: {e}"
ExcDetail(out) == <<out.name, ": ", out.msg>>

\* ------------------------------------------------------------------ agents

\* research_agent.run
research_run(out) ==
  IF out.raised THEN fail("research", "Research agent failed", ExcDetail(out))
  ELSE success("research", [theory_text |-> out.content, research_facts |-> <<>>])

\* what pd.read_csv and the statistics end with
ReadCsv == {[raised |-> FALSE, name |-> "", msg |-> ""],
            [raised |-> TRUE, name |-> "FileNotFoundError", msg |-> "No such file"]}

\* data_agent.run
data_run(csv, out) ==
  IF csv = "" THEN success("data", [data_summary |-> <<>>])
  ELSE IF out.raised THEN fail("data", "Data agent failed", ExcDetail(out))
  ELSE success("data", [data_summary |-> [n_total |-> 3],
                        data_highlights |-> [key_findings |-> <<>>]])

\* writer_agent.run
writer_run(cfg, out) ==
  IF out.raised THEN fail("writer", "Writer agent failed", ExcDetail(out))
  ELSE success("writer",
               [report_text |-> out.content,
                sections |-> IF cfg.writer_format # <<>>
                             THEN split_by_headers(out.content, cfg.writer_format)
                             ELSE <<>>])

\* reviewer_agent.run
reviewer_run(report, out) ==
  IF strip(report) = <<>> THEN fail("reviewer", "No report provided to reviewer", <<>>)
  ELSE IF out.raised THEN fail("reviewer", "Reviewer agent failed", ExcDetail(out))
  ELSE success("reviewer", [review_text |-> out.content])

\* diagram_agent.run
diagram_run(out) ==
  IF out.raised THEN fail("diagram", "Diagram agent failed", ExcDetail(out))
  ELSE success("diagram", [figures_text |-> out.content])

\* ------------------------------------------------------------------ templates

hA == <<"A">>

NoQuality == [min_words |-> <<>>, required_terms_by_section |-> <<>>,
              required_global_terms |-> <<>>]

\* template configurations in the shape of templates.TEMPLATES: without headers,
\* with a header and a word minimum, with a header and no quality rules
TemplateCfgs ==
  {[writer_format |-> <<>>,
    quality |-> [NoQuality EXCEPT !.required_global_terms = <<<<"x">>>>],
    include_review |-> TRUE, include_figures |-> TRUE],
   [writer_format |-> <<hA>>,
    quality |-> [NoQuality EXCEPT !.min_words = <<<<hA, 2>>>>],
    include_review |-> TRUE, include_figures |-> TRUE],
   [writer_format |-> <<hA>>,
    quality |-> NoQuality,
    include_review |-> FALSE, include_figures |-> FALSE]}

\* ------------------------------------------------------------------ orchestrator.py

VARIABLES
  pc,                \* position in run_pipeline
  template_cfg, include_review, csv_path,   \* arguments
  cancel_requested,  \* what should_cancel() returns now
  cancel_checks,     \* calls of should_cancel so far
  calls,             \* the steps invoked so far, in order
  progress,          \* the progress_cb calls so far
  timings_ms,        \* keys of timings_ms
  r1, d1, w1,        \* results of research, data and the first write
  w2, wq,            \* results of the repair write and of the quality-fix write
  report_text, sections,
  review_text, reviewer_status,
  figures_text, diagram_status,
  quality,           \* <<>> before the gate ran, else <<its last result>>
  raised,            \* <<>> or <<the exception run_pipeline raised>>
  result             \* <<>> or <<the dict run_pipeline returned>>

\* a call of one of the pure functions of utils/ on its own
VARIABLES
  fn,                \* the function called: "split", "join" or "quality"
  a_text,            \* argument report_text
  a_headers,         \* argument headers
  a_sections,        \* argument sections
  a_cfg,             \* argument template_cfg
  ret                \* the values returned so far, in order

fvars == <<fn, a_text, a_headers, a_sections, a_cfg, ret>>

\* no function call is under way
NoCall ==
  /\ fn = "" /\ a_text = <<>> /\ a_headers = <<>> /\ a_sections = <<>>
  /\ a_cfg = <<>> /\ ret = <<>>

\* a job: its state file, the worker _execute_job and the handler cancel_job
VARIABLES
  file,              \* state.json: <<>> (no file) or <<the JobState written last>>
  st,                \* the worker's JobState object: <<>> or <<JobState>>
  wpc,               \* the worker's position
  wstep,             \* the step the worker is at, an index of Steps
  caught,            \* the exception _execute_job caught: "" or its class name
  cst,               \* the JobState object cancel_job holds between its read and its write
  cancels,           \* calls of cancel_job so far
  cancel_log,        \* the worker's position at each write of cancel_job
  cancel_response    \* the answer of the last call of cancel_job: "" or its text

jvars == <<file, st, wpc, wstep, caught, cst, cancels, cancel_log, cancel_response>>

\* no job exists
NoJob ==
  /\ file = <<>> /\ st = <<>> /\ wpc = "" /\ wstep = 0 /\ caught = ""
  /\ cst = <<>> /\ cancels = 0 /\ cancel_log = <<>> /\ cancel_response = ""

\* the jobs directory, the executors and the handlers of main.py that work on it
VARIABLES
  use_rq,              \* USE_RQ_QUEUE is truthy
  fallback_background, \* RQ_FALLBACK_TO_BACKGROUND is truthy
  state_json,          \* per job id: <<>> (no state.json) or <<the JobState written last>>
  debug_json,          \* per job id: <<>> (no debug.json) or <<its request_payload and retry_of>>
  report_txt,          \* per job id: the text of report.txt ("" without the file)
  pdf,                 \* per job id: <<>> or <<the report text the PDF was built from>>
  background_tasks,    \* the job ids handed to BackgroundTasks.add_task, in order
  rq_queue,            \* the job ids enqueued in RQ, in order
  http                 \* the answer to the last request

avars == <<use_rq, fallback_background, state_json, debug_json, report_txt, pdf,
           background_tasks, rq_queue, http>>

\* no request was made and no job is stored
NoApi ==
  /\ use_rq = FALSE /\ fallback_background = FALSE
  /\ state_json = <<>> /\ debug_json = <<>> /\ report_txt = <<>> /\ pdf = <<>>
  /\ background_tasks = <<>> /\ rq_queue = <<>> /\ http = <<>>

\* the rate limiter of /run
VARIABLES
  RATE_LIMIT_ENABLED,  \* RUN_RATE_LIMIT_ENABLED is "1"
  RATE_LIMIT_BUCKETS,  \* per client address: the deque of the times recorded
  monotonic,           \* the clock
  passed,              \* per client address: the times of the calls that passed
  rate_response      \* the answer to the last call: <<>> or <<address, status code>>

rvars == <<RATE_LIMIT_ENABLED, RATE_LIMIT_BUCKETS, monotonic, passed, rate_response>>

\* the rate limiter is not in use
NoRate ==
  /\ RATE_LIMIT_ENABLED = FALSE /\ RATE_LIMIT_BUCKETS = <<>> /\ monotonic = 0
  /\ passed = <<>> /\ rate_response = <<>>

args == <<template_cfg, include_review, csv_path>>
locals == <<r1, d1, w1, w2, wq, report_text, sections, review_text, reviewer_status,
            figures_text, diagram_status, quality>>
vars == <<pc, args, cancel_requested, cancel_checks, calls, progress, timings_ms,
          locals, raised, result>>

Unset == [ok |-> FALSE, agent |-> "", payload |-> <<>>, error |-> <<>>]
Skipped == [skipped |-> TRUE]

Init ==
  /\ pc = "research"
  /\ template_cfg \in TemplateCfgs
  /\ include_review \in BOOLEAN
  /\ csv_path \in {"", "data.csv"}
  /\ cancel_requested = FALSE
  /\ cancel_checks = 0
  /\ calls = <<>>
  /\ progress = <<>>
  /\ timings_ms = {}
  /\ r1 = Unset /\ d1 = Unset /\ w1 = Unset
  /\ w2 = Unset /\ wq = Unset
  /\ report_text = <<>> /\ sections = <<>>
  /\ review_text = <<>> /\ reviewer_status = Skipped
  /\ figures_text = <<>> /\ diagram_status = Skipped
  /\ quality = <<>>
  /\ raised = <<>>
  /\ result = <<>>
  /\ NoCall
  /\ NoJob
  /\ NoApi
  /\ NoRate

CancelledError == [type |-> "CancelledError", text |-> <<"Job canceled by user.">>]


\* faulty variant of StepError: the label of the writer step on every step's error
StepError_WriterLabel(step, r) ==
  [type |-> "RuntimeError",
   text |-> <<"[", "writer", "] ", r.error[1].message, ": ">>
            \o (IF r.error[1].detail = <<>> THEN <<"None">> ELSE r.error[1].detail)]

\* RuntimeError(f"[{step}] {r.error.message}: {r.error.detail}")
StepError(step, r) ==
  [type |-> "RuntimeError",
   text |-> <<"[", step, "] ", r.error[1].message, ": ">>
            \o (IF r.error[1].detail = <<>> THEN <<"None">> ELSE r.error[1].detail)]

\* raise exc
Raise(exc) ==
  /\ pc' = "raised"
  /\ raised' = <<exc>>


\* faulty variant of Begin: the result of should_cancel() is ignored
Begin_IgnoresCancel(step, stage, pct, next) ==
  /\ cancel_checks' = cancel_checks + 1
  /\ pc' = next
  /\ progress' = Append(progress, <<stage, pct>>)
  /\ calls' = Append(calls, step)
  /\ UNCHANGED <<args, cancel_requested, timings_ms, locals, raised, result>>
  /\ UNCHANGED <<fvars, jvars, avars, rvars>>

\* _check_cancel() followed by progress_cb(stage, pct) and the call of the step
Begin(step, stage, pct, next) ==
  /\ cancel_checks' = cancel_checks + 1
  /\ IF cancel_requested
     THEN /\ Raise(CancelledError)
          /\ UNCHANGED <<calls, progress>>
     ELSE /\ pc' = next
          /\ progress' = Append(progress, <<stage, pct>>)
          /\ calls' = Append(calls, step)
          /\ UNCHANGED raised
  /\ UNCHANGED <<args, cancel_requested, timings_ms, locals, result>>
  /\ UNCHANGED <<fvars, jvars, avars, rvars>>

\* the cancellation predicate starts to return true
RequestCancel ==
  /\ pc \notin {"returned", "raised"}
  /\ ~cancel_requested
  /\ cancel_requested' = TRUE
  /\ UNCHANGED <<pc, args, cancel_checks, calls, progress, timings_ms, locals, raised, result>>
  /\ UNCHANGED <<fvars, jvars, avars, rvars>>

\* 1) Research
ResearchBegin ==
  /\ pc = "research"
  /\ Begin("research", "research", 20, "research_run")

ResearchReturn ==
  /\ pc = "research_run"
  /\ \E out \in chat(NoteTexts) :
       LET r == research_run(out)
       IN /\ r1' = r
          /\ timings_ms' = timings_ms \cup {"research"}
          /\ IF ~r.ok
             THEN Raise(StepError("research", r))
             ELSE pc' = "data" /\ UNCHANGED raised
  /\ UNCHANGED <<args, cancel_requested, cancel_checks, calls, progress, d1, w1,
                 report_text, sections, review_text, reviewer_status, figures_text,
                 diagram_status, quality, result, w2, wq>>
  /\ UNCHANGED <<fvars, jvars, avars, rvars>>

\* 2) Data
DataBegin ==
  /\ pc = "data"
  /\ Begin("data", "data", 35, "data_run")

DataReturn ==
  /\ pc = "data_run"
  /\ \E out \in ReadCsv :
       LET d == data_run(csv_path, out)
       IN /\ d1' = d
          /\ timings_ms' = timings_ms \cup {"data"}
          /\ IF ~d.ok
             THEN Raise(StepError("data", d))
             ELSE pc' = "writer" /\ UNCHANGED raised
  /\ UNCHANGED <<args, cancel_requested, cancel_checks, calls, progress, r1, w1,
                 report_text, sections, review_text, reviewer_status, figures_text,
                 diagram_status, quality, result, w2, wq>>
  /\ UNCHANGED <<fvars, jvars, avars, rvars>>

\* 3) Writer
WriterBegin ==
  /\ pc = "writer"
  /\ Begin("writer", "writer", 55, "writer_run")

WriterReturn ==
  /\ pc = "writer_run"
  /\ \E out \in chat(ReplyTexts) :
       LET w == writer_run(template_cfg, out)
       IN /\ w1' = w
          /\ timings_ms' = timings_ms \cup {"writer"}
          /\ IF ~w.ok
             THEN /\ Raise(StepError("writer", w))
                  /\ UNCHANGED <<report_text, sections>>
             ELSE /\ report_text' = Get(w.payload, "report_text", <<>>)
                  /\ sections' = Get(w.payload, "sections", <<>>)
                  /\ pc' = "repair"
                  /\ UNCHANGED raised
  /\ UNCHANGED <<args, cancel_requested, cancel_checks, calls, progress, r1, d1,
                 review_text, reviewer_status, figures_text, diagram_status, quality,
                 result, w2, wq>>
  /\ UNCHANGED <<fvars, jvars, avars, rvars>>


\* faulty variants of MissingSections: only an absent key counts as missing; the test inverted
MissingSections_AbsentKeyOnly(cfg, secs) ==
  SelectSeq(cfg.writer_format, LAMBDA h : h \notin DOMAIN secs)

MissingSections_Inverted(cfg, secs) ==
  SelectSeq(cfg.writer_format, LAMBDA h : strip(Get(secs, h, <<>>)) # <<>>)

\* 3b) the required headers whose section is empty
MissingSections(cfg, secs) ==
  SelectSeq(cfg.writer_format, LAMBDA h : strip(Get(secs, h, <<>>)) = <<>>)

\* w.ok and w.payload.get("report_text")
Accepted(w) == w.ok /\ Get(w.payload, "report_text", <<>>) # <<>>


\* faulty variant of RepairSkip: the review block is jumped over with the repair
RepairSkip_ToDiagram ==
  /\ pc = "repair"
  /\ MissingSections(template_cfg, sections) = <<>>
  /\ pc' = "diagram"
  /\ UNCHANGED <<args, cancel_requested, cancel_checks, calls, progress, timings_ms,
                 locals, raised, result>>
  /\ UNCHANGED <<fvars, jvars, avars, rvars>>

RepairSkip ==
  /\ pc = "repair"
  /\ MissingSections(template_cfg, sections) = <<>>
  /\ pc' = "reviewer"
  /\ UNCHANGED <<args, cancel_requested, cancel_checks, calls, progress, timings_ms,
                 locals, raised, result>>
  /\ UNCHANGED <<fvars, jvars, avars, rvars>>

RepairBegin ==
  /\ pc = "repair"
  /\ MissingSections(template_cfg, sections) # <<>>
  /\ Begin("writer_repair", "writer_repair", 65, "repair_run")


\* faulty variant of RepairReturn: the sections are checked again after the repair
RepairReturn_Again ==
  /\ pc = "repair_run"
  /\ \E out \in chat(ReplyTexts) :
       LET w2c == writer_run(template_cfg, out)
       IN /\ w2' = w2c
          /\ timings_ms' = timings_ms \cup {"writer_repair"}
          /\ IF Accepted(w2c)
             THEN /\ report_text' = w2c.payload.report_text
                  /\ sections' = Get(w2c.payload, "sections", <<>>)
             ELSE UNCHANGED <<report_text, sections>>
  /\ pc' = "repair"
  /\ UNCHANGED <<args, cancel_requested, cancel_checks, calls, progress, r1, d1, w1,
                 review_text, reviewer_status, figures_text, diagram_status, quality,
                 raised, result, wq>>
  /\ UNCHANGED <<fvars, jvars, avars, rvars>>

\* faulty variant of RepairReturn: the repaired text is taken, the section mapping is not
RepairReturn_StaleSections ==
  /\ pc = "repair_run"
  /\ \E out \in chat(ReplyTexts) :
       LET w2c == writer_run(template_cfg, out)
       IN /\ w2' = w2c
          /\ timings_ms' = timings_ms \cup {"writer_repair"}
          /\ IF Accepted(w2c)
             THEN report_text' = w2c.payload.report_text
             ELSE UNCHANGED report_text
  /\ pc' = "reviewer"
  /\ UNCHANGED <<args, cancel_requested, cancel_checks, calls, progress, r1, d1, w1,
                 sections, review_text, reviewer_status, figures_text, diagram_status,
                 quality, raised, result, wq>>
  /\ UNCHANGED <<fvars, jvars, avars, rvars>>

RepairReturn ==
  /\ pc = "repair_run"
  /\ \E out \in chat(ReplyTexts) :
       LET w2c == writer_run(template_cfg, out)
       IN /\ w2' = w2c
          /\ timings_ms' = timings_ms \cup {"writer_repair"}
          /\ IF Accepted(w2c)
             THEN /\ report_text' = w2c.payload.report_text
                  /\ sections' = Get(w2c.payload, "sections", <<>>)
             ELSE UNCHANGED <<report_text, sections>>
  /\ pc' = "reviewer"
  /\ UNCHANGED <<args, cancel_requested, cancel_checks, calls, progress, r1, d1, w1,
                 review_text, reviewer_status, figures_text, diagram_status, quality,
                 raised, result, wq>>
  /\ UNCHANGED <<fvars, jvars, avars, rvars>>


\* faulty variant of ReviewWanted: the template's flag is not consulted
ReviewWanted_CallerOnly == include_review

\* 4) Reviewer (optional)
ReviewWanted == include_review /\ template_cfg.include_review

ReviewerSkip ==
  /\ pc = "reviewer"
  /\ ~ReviewWanted
  /\ pc' = "diagram"
  /\ UNCHANGED <<args, cancel_requested, cancel_checks, calls, progress, timings_ms,
                 locals, raised, result>>
  /\ UNCHANGED <<fvars, jvars, avars, rvars>>

ReviewerBegin ==
  /\ pc = "reviewer"
  /\ ReviewWanted
  /\ Begin("reviewer", "reviewer", 75, "reviewer_run")


\* faulty variant of ReviewerReturn: a failed review is raised like a failed write
ReviewerReturn_Fatal ==
  /\ pc = "reviewer_run"
  /\ \E out \in chat(NoteTexts) :
       LET rv == reviewer_run(report_text, out)
       IN /\ reviewer_status' = rv
          /\ review_text' = IF rv.ok THEN Get(rv.payload, "review_text", <<>>) ELSE <<>>
          /\ IF ~rv.ok
             THEN Raise(StepError("reviewer", rv))
             ELSE pc' = "diagram" /\ UNCHANGED raised
  /\ timings_ms' = timings_ms \cup {"reviewer"}
  /\ UNCHANGED <<args, cancel_requested, cancel_checks, calls, progress, r1, d1, w1,
                 report_text, sections, figures_text, diagram_status, quality,
                 result, w2, wq>>
  /\ UNCHANGED <<fvars, jvars, avars, rvars>>

ReviewerReturn ==
  /\ pc = "reviewer_run"
  /\ \E out \in chat(NoteTexts) :
       LET rv == reviewer_run(report_text, out)
       IN /\ reviewer_status' = rv
          /\ review_text' = IF rv.ok THEN Get(rv.payload, "review_text", <<>>) ELSE <<>>
  /\ timings_ms' = timings_ms \cup {"reviewer"}
  /\ pc' = "diagram"
  /\ UNCHANGED <<args, cancel_requested, cancel_checks, calls, progress, r1, d1, w1,
                 report_text, sections, figures_text, diagram_status, quality, raised,
                 result, w2, wq>>
  /\ UNCHANGED <<fvars, jvars, avars, rvars>>

\* 5) Figures (optional)
data_summary == Get(d1.payload, "data_summary", <<>>)


\* faulty variant of FiguresWanted: figures are suggested without a data summary
FiguresWanted_TemplateOnly == template_cfg.include_figures

FiguresWanted == template_cfg.include_figures /\ data_summary # <<>>

DiagramSkip ==
  /\ pc = "diagram"
  /\ ~FiguresWanted
  /\ pc' = "quality"
  /\ UNCHANGED <<args, cancel_requested, cancel_checks, calls, progress, timings_ms,
                 locals, raised, result>>
  /\ UNCHANGED <<fvars, jvars, avars, rvars>>

DiagramBegin ==
  /\ pc = "diagram"
  /\ FiguresWanted
  /\ Begin("diagram", "diagram", 85, "diagram_run")

DiagramReturn ==
  /\ pc = "diagram_run"
  /\ \E out \in chat(NoteTexts) :
       LET dg == diagram_run(out)
       IN /\ diagram_status' = dg
          /\ figures_text' = IF dg.ok THEN Get(dg.payload, "figures_text", <<>>)
                             ELSE figures_text
  /\ timings_ms' = timings_ms \cup {"diagram"}
  /\ pc' = "quality"
  /\ UNCHANGED <<args, cancel_requested, cancel_checks, calls, progress, r1, d1, w1,
                 report_text, sections, review_text, reviewer_status, quality, raised,
                 result, w2, wq>>
  /\ UNCHANGED <<fvars, jvars, avars, rvars>>


\* faulty variant of Returned: the writer entry is the repair write's result
Returned_RepairAsWriter(rt, secs, q, timings) ==
  [theory |-> Get(r1.payload, "theory_text", <<>>),
   research_facts |-> Get(r1.payload, "research_facts", <<>>),
   data_summary |-> data_summary,
   data_highlights |-> Get(d1.payload, "data_highlights", <<>>),
   report |-> rt,
   review |-> review_text,
   figures |-> figures_text,
   report_sections |-> secs,
   quality |-> q,
   agent_status |-> [research |-> r1, data |-> d1,
                     writer |-> IF w2.agent = "writer" THEN w2 ELSE w1,
                     reviewer |-> reviewer_status, diagram |-> diagram_status,
                     timings_ms |-> timings]]

\* the dict run_pipeline returns
Returned(rt, secs, q, timings) ==
  [theory |-> Get(r1.payload, "theory_text", <<>>),
   research_facts |-> Get(r1.payload, "research_facts", <<>>),
   data_summary |-> data_summary,
   data_highlights |-> Get(d1.payload, "data_highlights", <<>>),
   report |-> rt,
   review |-> review_text,
   figures |-> figures_text,
   report_sections |-> secs,
   quality |-> q,
   agent_status |-> [research |-> r1, data |-> d1, writer |-> w1,
                     reviewer |-> reviewer_status, diagram |-> diagram_status,
                     timings_ms |-> timings]]

\* 6) Quality gate: the report passes and is returned
QualityPass ==
  /\ pc = "quality"
  /\ LET q == evaluate_report_quality(report_text, template_cfg)
     IN /\ q.ok
        /\ quality' = <<q>>
        /\ result' = <<Returned(report_text, sections, q, timings_ms)>>
  /\ pc' = "returned"
  /\ UNCHANGED <<args, cancel_requested, cancel_checks, calls, progress, timings_ms,
                 r1, d1, w1, report_text, sections, review_text, reviewer_status,
                 figures_text, diagram_status, raised, w2, wq>>
  /\ UNCHANGED <<fvars, jvars, avars, rvars>>

\* 6) Quality gate: the report fails, the writer is called with the fix prompt
QualityFixBegin ==
  /\ pc = "quality"
  /\ LET q == evaluate_report_quality(report_text, template_cfg)
     IN /\ ~q.ok
        /\ quality' = <<q>>
  /\ progress' = Append(progress, <<"quality_fix", 88>>)
  /\ calls' = Append(calls, "quality_fix")
  /\ pc' = "quality_fix_run"
  /\ UNCHANGED <<args, cancel_requested, cancel_checks, timings_ms, r1, d1, w1,
                 report_text, sections, review_text, reviewer_status, figures_text,
                 diagram_status, raised, result, w2, wq>>
  /\ UNCHANGED <<fvars, jvars, avars, rvars>>


\* faulty variant of QualityFixReturn: the gate is not run again on the new text
QualityFixReturn_StaleQuality ==
  /\ pc = "quality_fix_run"
  /\ \E out \in chat(ReplyTexts) :
       LET wqc == writer_run(template_cfg, out)
           rt == IF Accepted(wqc) THEN wqc.payload.report_text ELSE report_text
           secs == IF Accepted(wqc) THEN Get(wqc.payload, "sections", <<>>) ELSE sections
           timings == timings_ms \cup {"writer_quality_fix"}
       IN /\ wq' = wqc
          /\ report_text' = rt
          /\ sections' = secs
          /\ timings_ms' = timings
          /\ result' = <<Returned(rt, secs, quality[1], timings)>>
  /\ pc' = "returned"
  /\ UNCHANGED <<args, cancel_requested, cancel_checks, calls, progress, r1, d1, w1,
                 review_text, reviewer_status, figures_text, diagram_status, raised,
                 w2, quality>>
  /\ UNCHANGED <<fvars, jvars, avars, rvars>>

QualityFixReturn ==
  /\ pc = "quality_fix_run"
  /\ \E out \in chat(ReplyTexts) :
       LET wqc == writer_run(template_cfg, out)
           rt == IF Accepted(wqc) THEN wqc.payload.report_text ELSE report_text
           secs == IF Accepted(wqc) THEN Get(wqc.payload, "sections", <<>>) ELSE sections
           q == evaluate_report_quality(rt, template_cfg)
           timings == timings_ms \cup {"writer_quality_fix"}
       IN /\ wq' = wqc
          /\ report_text' = rt
          /\ sections' = secs
          /\ quality' = <<q>>
          /\ timings_ms' = timings
          /\ result' = <<Returned(rt, secs, q, timings)>>
  /\ pc' = "returned"
  /\ UNCHANGED <<args, cancel_requested, cancel_checks, calls, progress, r1, d1, w1,
                 review_text, reviewer_status, figures_text, diagram_status, raised, w2>>
  /\ UNCHANGED <<fvars, jvars, avars, rvars>>

Next ==
  \/ RequestCancel
  \/ ResearchBegin \/ ResearchReturn
  \/ DataBegin \/ DataReturn
  \/ WriterBegin \/ WriterReturn
  \/ RepairSkip \/ RepairBegin \/ RepairReturn
  \/ ReviewerSkip \/ ReviewerBegin \/ ReviewerReturn
  \/ DiagramSkip \/ DiagramBegin \/ DiagramReturn
  \/ QualityPass \/ QualityFixBegin \/ QualityFixReturn

Spec == Init /\ [][Next]_<<vars, fvars, jvars, avars, rvars>>

\* ------------------------------------------------------------------ calls of the pure functions

hX == <<"x">>

\* the texts of at most n characters over chars
TextsOver(chars, n) == UNION {[1..k -> chars] : k \in 0..n}

SplitChars == {"A", COLON, SP, NL, "x"}
GateChars == {"A", "a", COLON, SP, NL, "x"}
ValueChars == {"A", COLON, SP, NL, CR, "x"}

\* header lists as templates.TEMPLATES has them: names without surrounding
\* white space
HeaderLists == {<<hA>>, <<hA, hX>>}

\* the section dicts handed to join_sections for a header list: the keys are
\* the headers, or there is no key, or there is a key that is no header
SectionDicts(headers) ==
  IF headers = <<hA>>
  THEN [{hA} -> TextsOver(ValueChars, MaxValueLen)] \cup {<<>>}
       \cup [{hA, hX} -> TextsOver(ValueChars, MaxPairLen)]
  ELSE [{hA, hX} -> TextsOver(ValueChars, MaxPairLen)]

\* configurations of the quality gate: a word minimum and a required term on
\* the header; two headers, an empty term list and a global term; rules for
\* a section without any required header; no rule at all
GateCfgs ==
  {[writer_format |-> <<hA>>,
    quality |-> [min_words |-> <<<<hA, 2>>>>,
                 required_terms_by_section |-> <<<<hA, <<<<"X">>>>>>>>,
                 required_global_terms |-> <<>>]],
   [writer_format |-> <<hA, hX>>,
    quality |-> [min_words |-> <<<<hA, 1>>, <<hX, 2>>>>,
                 required_terms_by_section |-> <<<<hA, <<>>>>>>,
                 required_global_terms |-> <<<<"A">>>>]],
   [writer_format |-> <<>>,
    quality |-> [min_words |-> <<<<hA, 2>>>>,
                 required_terms_by_section |-> <<<<hA, <<<<"x">>>>>>>>,
                 required_global_terms |-> <<>>]],
   [writer_format |-> <<hA>>, quality |-> NoQuality]}

\* run_pipeline is not running
NoRun ==
  /\ pc = "" /\ template_cfg = <<>> /\ include_review = FALSE /\ csv_path = ""
  /\ cancel_requested = FALSE /\ cancel_checks = 0 /\ calls = <<>>
  /\ progress = <<>> /\ timings_ms = {}
  /\ r1 = Unset /\ d1 = Unset /\ w1 = Unset /\ w2 = Unset /\ wq = Unset
  /\ report_text = <<>> /\ sections = <<>>
  /\ review_text = <<>> /\ reviewer_status = Skipped
  /\ figures_text = <<>> /\ diagram_status = Skipped
  /\ quality = <<>> /\ raised = <<>> /\ result = <<>>

FnInit ==
  /\ NoRun
  /\ NoJob
  /\ NoApi
  /\ NoRate
  /\ ret = <<>>
  /\ \/ /\ fn = "split"
        /\ a_text \in TextsOver(SplitChars, MaxSplitLen)
        /\ a_headers \in HeaderLists \cup {<<>>}
        /\ a_sections = <<>> /\ a_cfg = <<>>
     \/ /\ fn = "join"
        /\ a_headers \in HeaderLists
        /\ a_sections \in SectionDicts(a_headers)
        /\ a_text = <<>> /\ a_cfg = <<>>
     \/ /\ fn = "quality"
        /\ a_text \in TextsOver(GateChars, MaxGateLen)
        /\ a_cfg \in GateCfgs
        /\ a_headers = <<>> /\ a_sections = <<>>

\* split_by_headers(a_text, a_headers)
CallSplit ==
  /\ fn = "split" /\ ret = <<>>
  /\ ret' = <<split_by_headers(a_text, a_headers)>>
  /\ UNCHANGED <<vars, jvars, avars, rvars, fn, a_text, a_headers, a_sections, a_cfg>>

\* join_sections(a_sections, a_headers)
CallJoin ==
  /\ fn = "join" /\ ret = <<>>
  /\ ret' = <<join_sections(a_sections, a_headers)>>
  /\ UNCHANGED <<vars, jvars, avars, rvars, fn, a_text, a_headers, a_sections, a_cfg>>

\* split_by_headers(joined, a_headers) on the text join_sections returned
CallSplitOfJoined ==
  /\ fn = "join" /\ Len(ret) = 1
  /\ ret' = Append(ret, split_by_headers(ret[1], a_headers))
  /\ UNCHANGED <<vars, jvars, avars, rvars, fn, a_text, a_headers, a_sections, a_cfg>>

\* evaluate_report_quality(a_text, a_cfg)
CallEvaluate ==
  /\ fn = "quality" /\ ret = <<>>
  /\ ret' = <<evaluate_report_quality(a_text, a_cfg)>>
  /\ UNCHANGED <<vars, jvars, avars, rvars, fn, a_text, a_headers, a_sections, a_cfg>>

FnNext == CallSplit \/ CallJoin \/ CallSplitOfJoined \/ CallEvaluate

FnSpec == FnInit /\ [][FnNext]_<<vars, fvars, jvars, avars, rvars>>

\* ------------------------------------------------------------------ main.py: a job, its worker and cancel_job

\* utils/state.py new_state; error None is <<>>
new_state ==
  [status |-> "queued", stage |-> "queued", progress_pct |-> 0,
   cancellation_requested |-> FALSE, error |-> <<>>]

\* what the worker does one after the other: the steps of run_pipeline with the
\* stage and the percentage they report, then the plots and the PDF.  checked:
\* is_canceled() is consulted first; optional: the step may be left out;
\* fatal: its failure is raised
Steps ==
  <<[stage |-> "research", pct |-> 20, checked |-> TRUE, optional |-> FALSE, fatal |-> TRUE],
    [stage |-> "data", pct |-> 35, checked |-> TRUE, optional |-> FALSE, fatal |-> TRUE],
    [stage |-> "writer", pct |-> 55, checked |-> TRUE, optional |-> FALSE, fatal |-> TRUE],
    [stage |-> "writer_repair", pct |-> 65, checked |-> TRUE, optional |-> TRUE, fatal |-> FALSE],
    [stage |-> "reviewer", pct |-> 75, checked |-> TRUE, optional |-> TRUE, fatal |-> FALSE],
    [stage |-> "diagram", pct |-> 85, checked |-> TRUE, optional |-> TRUE, fatal |-> FALSE],
    [stage |-> "quality_fix", pct |-> 88, checked |-> FALSE, optional |-> TRUE, fatal |-> FALSE],
    [stage |-> "plotting", pct |-> 90, checked |-> TRUE, optional |-> TRUE, fatal |-> TRUE],
    [stage |-> "pdf_build", pct |-> 95, checked |-> TRUE, optional |-> FALSE, fatal |-> TRUE]>>

\* the steps inside run_pipeline
PipelineSteps == 1..7

\* the steps the worker may go to after step i: the next one, or a later one
\* if all steps in between are optional
NextSteps(i) ==
  {j \in (i + 1)..Len(Steps) : \A k \in (i + 1)..(j - 1) : Steps[k].optional}

\* where the worker goes when it arrives at step j
Arrive(j) ==
  /\ wstep' = j
  /\ wpc' = IF Steps[j].checked THEN "check" ELSE "progress"

\* _set_stage(st, jdir, stage=..., progress_pct=...) after st.status and st.error
\* were assigned: the worker's object is changed and written to the file
SetStage(status, error, stage, progress_pct) ==
  LET pct == IF progress_pct < 0 THEN 0 ELSE IF progress_pct > 100 THEN 100 ELSE progress_pct
      new == [st[1] EXCEPT !.status = status, !.error = error,
                           !.stage = stage, !.progress_pct = pct]
  IN /\ st' = <<new>>
     /\ file' = <<new>>

JobInit ==
  /\ NoRun
  /\ NoCall
  /\ NoApi
  /\ NoRate
  /\ file \in {<<>>, <<new_state>>}
  /\ st = <<>> /\ wpc = "queued" /\ wstep = 0 /\ caught = ""
  /\ cst = <<>> /\ cancels = 0 /\ cancel_log = <<>> /\ cancel_response = ""

\* st = read_state(jdir); if not st: return
WorkerStart ==
  /\ wpc = "queued"
  /\ st' = file
  /\ wpc' = IF file = <<>> THEN "returned" ELSE "started"
  /\ UNCHANGED <<file, wstep, caught, cst, cancels, cancel_log, cancel_response>>
  /\ UNCHANGED <<vars, fvars, avars, rvars>>

\* the cancellation flag of the object read at the start, then the first write
WorkerBegin ==
  /\ wpc = "started"
  /\ IF st[1].cancellation_requested
     THEN /\ SetStage("canceled", <<"Canceled by user.">>, "canceled", 100)
          /\ wpc' = "written"
          /\ UNCHANGED wstep
     ELSE /\ SetStage("running", <<>>, "starting", 5)
          /\ Arrive(1)
  /\ UNCHANGED <<caught, cst, cancels, cancel_log, cancel_response>>
  /\ UNCHANGED <<vars, fvars, avars, rvars>>

\* is_canceled(): the state file is read again
is_canceled == file # <<>> /\ file[1].cancellation_requested

\* _check_cancel() in run_pipeline, and the checks before the plots and the PDF
WorkerCheck ==
  /\ wpc = "check"
  /\ IF is_canceled
     THEN wpc' = "raised" /\ caught' = "CancelledError"
     ELSE wpc' = "progress" /\ caught' = caught
  /\ UNCHANGED <<file, st, wstep, cst, cancels, cancel_log, cancel_response>>
  /\ UNCHANGED <<vars, fvars, avars, rvars>>

\* on_progress(stage, {"progress_pct": pct}), _set_stage(... "plotting" ...),
\* _set_stage(... "pdf_build" ...)
WorkerProgress ==
  /\ wpc = "progress"
  /\ SetStage(st[1].status, st[1].error, Steps[wstep].stage, Steps[wstep].pct)
  /\ wpc' = "run"
  /\ UNCHANGED <<wstep, caught, cst, cancels, cancel_log, cancel_response>>
  /\ UNCHANGED <<vars, fvars, avars, rvars>>

\* the step returns; run_pipeline, generate_plots or build_submission_pdf go on
WorkerStepDone ==
  /\ wpc = "run"
  /\ IF wstep = Len(Steps)
     THEN wpc' = "built" /\ wstep' = wstep
     ELSE \E j \in NextSteps(wstep) : Arrive(j)
  /\ UNCHANGED <<file, st, caught, cst, cancels, cancel_log, cancel_response>>
  /\ UNCHANGED <<vars, fvars, avars, rvars>>

\* the step fails and the failure is raised
WorkerStepRaises ==
  /\ wpc = "run"
  /\ Steps[wstep].fatal
  /\ wpc' = "raised"
  /\ caught' = "RuntimeError"
  /\ UNCHANGED <<file, st, wstep, cst, cancels, cancel_log, cancel_response>>
  /\ UNCHANGED <<vars, fvars, avars, rvars>>

\* st.status = "done" ... _set_stage(st, jdir, stage="done", progress_pct=100)
WorkerDone ==
  /\ wpc = "built"
  /\ SetStage("done", <<>>, "done", 100)
  /\ wpc' = "written"
  /\ UNCHANGED <<wstep, caught, cst, cancels, cancel_log, cancel_response>>
  /\ UNCHANGED <<vars, fvars, avars, rvars>>

\* except CancelledError as e
WorkerExceptCancelled ==
  /\ wpc = "raised" /\ caught = "CancelledError"
  /\ SetStage("canceled", <<"Job canceled by user.">>, "canceled", 100)
  /\ wpc' = "written"
  /\ UNCHANGED <<wstep, caught, cst, cancels, cancel_log, cancel_response>>
  /\ UNCHANGED <<vars, fvars, avars, rvars>>

\* except Exception as e
WorkerExceptException ==
  /\ wpc = "raised" /\ caught # "CancelledError"
  /\ SetStage("failed", <<caught, ": ", Steps[wstep].stage>>, "failed", 100)
  /\ wpc' = "written"
  /\ UNCHANGED <<wstep, caught, cst, cancels, cancel_log, cancel_response>>
  /\ UNCHANGED <<vars, fvars, avars, rvars>>

\* _execute_job returns after its last write
WorkerReturn ==
  /\ wpc = "written"
  /\ wpc' = "returned"
  /\ UNCHANGED <<file, st, wstep, caught, cst, cancels, cancel_log, cancel_response>>
  /\ UNCHANGED <<vars, fvars, avars, rvars>>

\* cancel_job up to its write: st = read_state(jdir); 404 without a file; a
\* finished job is left alone; else the flag and the stage are set on the object
CancelRead ==
  /\ cst = <<>>
  /\ cancels < MaxCancels
  /\ cancels' = cancels + 1
  /\ cst' = IF file = <<>> \/ file[1].status \in {"done", "failed", "canceled"}
            THEN <<>>
            ELSE <<[file[1] EXCEPT !.cancellation_requested = TRUE,
                                   !.stage = "cancel_requested"]>>
  /\ cancel_response' = IF file = <<>> THEN "Job not found"
                        ELSE IF file[1].status \in {"done", "failed", "canceled"}
                             THEN "Job is already finished."
                             ELSE ""
  /\ UNCHANGED <<file, st, wpc, wstep, caught, cancel_log>>
  /\ UNCHANGED <<vars, fvars, avars, rvars>>

\* cancel_job: write_state(jdir, st)
CancelWrite ==
  /\ cst # <<>>
  /\ file' = cst
  /\ cst' = <<>>
  /\ cancel_log' = Append(cancel_log, [wpc |-> wpc, wstep |-> wstep])
  /\ cancel_response' = "Cancellation requested."
  /\ UNCHANGED <<st, wpc, wstep, caught, cancels>>
  /\ UNCHANGED <<vars, fvars, avars, rvars>>

JobNext ==
  \/ WorkerStart \/ WorkerBegin \/ WorkerCheck \/ WorkerProgress
  \/ WorkerStepDone \/ WorkerStepRaises \/ WorkerDone
  \/ WorkerExceptCancelled \/ WorkerExceptException \/ WorkerReturn
  \/ CancelRead \/ CancelWrite

JobSpec == JobInit /\ [][JobNext]_<<vars, fvars, jvars, avars, rvars>>

\* ------------------------------------------------------------------ utils/queue.py

\* what _enqueue_rq does for a job: it returns the id of the RQ job, or raises
RqOutcomes(job) ==
  {[ok |-> TRUE, job_id |-> <<"rq", job>>, error |-> ""],
   [ok |-> FALSE, job_id |-> <<>>, error |-> "ConnectionError: refused"]}

\* faulty variant of enqueue_job: a job taken by RQ is also added as a background task
enqueue_job_AlsoBackground(env_use_rq, env_fallback, rq) ==
  IF env_use_rq /\ rq.ok
  THEN [mode |-> "rq", job_id |-> rq.job_id, error |-> "",
        enqueued |-> TRUE, add_task |-> TRUE, raises |-> FALSE]
  ELSE IF env_use_rq /\ ~env_fallback
       THEN [mode |-> "rq_error", job_id |-> <<>>, error |-> rq.error,
             enqueued |-> FALSE, add_task |-> FALSE, raises |-> FALSE]
       ELSE [mode |-> "background", job_id |-> <<>>, error |-> "",
             enqueued |-> FALSE, add_task |-> TRUE, raises |-> FALSE]

\* enqueue_job: the QueueResult it returns (mode, job_id, error; None is <<>> or
\* ""), whether RQ took the job (enqueued), whether background_tasks.add_task
\* was called (add_task), and whether an exception leaves the function (raises)
enqueue_job(env_use_rq, env_fallback, rq) ==
  IF env_use_rq /\ rq.ok
  THEN [mode |-> "rq", job_id |-> rq.job_id, error |-> "",
        enqueued |-> TRUE, add_task |-> FALSE, raises |-> FALSE]
  ELSE IF env_use_rq /\ ~env_fallback
       THEN [mode |-> "rq_error", job_id |-> <<>>, error |-> rq.error,
             enqueued |-> FALSE, add_task |-> FALSE, raises |-> FALSE]
       ELSE [mode |-> "background", job_id |-> <<>>, error |-> "",
             enqueued |-> FALSE, add_task |-> TRUE, raises |-> FALSE]

\* ------------------------------------------------------------------ main.py: the handlers on the jobs directory

\* the job ids new_job_id() can return
JobIds == {"J1", "J2"}

\* request payloads: without and with an uploaded csv file
Payloads ==
  {[template |-> "lab_report", csv_path |-> ""],
   [template |-> "lab_report", csv_path |-> "data.csv"]}

\* the template of the jobs: two headers, a word minimum for the first
JobTemplate ==
  [writer_format |-> <<hA, hX>>,
   quality |-> [NoQuality EXCEPT !.min_words = <<<<hA, 1>>>>]]

\* a report with both sections
FullReport == join_sections([h \in {hA, hX} |-> <<"x">>], <<hA, hX>>)

\* the report texts run_pipeline and writer_run return
WriterTexts == {<<"x">>, FullReport}

\* the report_text of the body of POST /draft
DraftBodies == {<<SP>>, <<"x", COLON, NL, "x", SP>>}

\* the section of the body of POST /regenerate-section
Targets == {<<>>, hA, hX, <<"y">>}

\* what chat() returns for the section: nothing, a body, a body with a header line
ChatReplies == {<<>>, <<"A", SP>>, <<"x", COLON, NL, "A">>}

\* the state _queue_pipeline_job writes: new_state, then queue_mode and queue_job_id
queued_state(mode, rq_job_id) ==
  [status |-> new_state.status, stage |-> new_state.stage,
   progress_pct |-> new_state.progress_pct, queue_mode |-> mode, queue_job_id |-> rq_job_id]

\* st.status in ("done", "failed", "canceled")
Editable(status) == status \in {"done", "failed", "canceled"}

NoResponse ==
  [op |-> "", job_id |-> "", status_code |-> 0, detail |-> "", new_job_id |-> "",
   editable |-> FALSE, section |-> <<>>, new_body |-> <<>>]

\* the answer: the handler, the job id of the request, the status code and detail
Respond(op, job, code, detail) ==
  http' = <<[NoResponse EXCEPT !.op = op, !.job_id = job, !.status_code = code,
                               !.detail = detail]>>

\* raise HTTPException before anything is written
Refuse(op, job, code, detail) ==
  /\ Respond(op, job, code, detail)
  /\ UNCHANGED <<state_json, debug_json, report_txt, pdf, background_tasks, rq_queue>>

QueueInit ==
  /\ NoRun
  /\ NoCall
  /\ NoJob
  /\ NoRate
  /\ use_rq \in BOOLEAN
  /\ fallback_background \in BOOLEAN
  /\ state_json = [j \in JobIds |-> <<>>]
  /\ debug_json = [j \in JobIds |-> <<>>]
  /\ report_txt = [j \in JobIds |-> <<>>]
  /\ pdf = [j \in JobIds |-> <<>>]
  /\ background_tasks = <<>>
  /\ rq_queue = <<>>
  /\ http = <<>>

\* _queue_pipeline_job: new_job_id() (a random token: an id no job has),
\* write_state(jdir, new_state(job_id)), enqueue_job(...), 503 on rq_error
\* ("Queue unavailable: " and the error text, which is the detail here), else
\* the state with the queue mode and debug.json with the request payload
QueuePipelineJob(op, retry_of, payload) ==
  \E job \in JobIds : \E rq \in RqOutcomes(job) :
    /\ state_json[job] = <<>>
    /\ LET queue_res == enqueue_job(use_rq, fallback_background, rq)
       IN /\ background_tasks' = IF queue_res.add_task THEN Append(background_tasks, job)
                                 ELSE background_tasks
          /\ rq_queue' = IF queue_res.enqueued THEN Append(rq_queue, job) ELSE rq_queue
          /\ IF queue_res.raises \/ queue_res.mode = "rq_error"
             THEN /\ state_json' = [state_json EXCEPT ![job] = <<queued_state("", <<>>)>>]
                  /\ debug_json' = debug_json
                  /\ IF queue_res.raises
                     THEN Respond(op, retry_of, 500, "Internal Server Error")
                     ELSE Respond(op, retry_of, 503, queue_res.error)
             ELSE /\ state_json' = [state_json EXCEPT
                                      ![job] = <<queued_state(queue_res.mode, queue_res.job_id)>>]
                  /\ debug_json' = [debug_json EXCEPT
                                      ![job] = <<[request_payload |-> payload,
                                                  retry_of |-> retry_of,
                                                  writer_report |-> <<>>]>>]
                  /\ http' = <<[NoResponse EXCEPT !.op = op, !.job_id = retry_of,
                                                  !.status_code = 200, !.new_job_id = job]>>
    /\ UNCHANGED <<report_txt, pdf>>

\* POST /run: the rate limit and the validation of the form refuse the request
\* before anything is stored (valid = FALSE), else the job is queued
Run ==
  /\ \E valid \in BOOLEAN : \E payload \in Payloads :
       IF valid THEN QueuePipelineJob("run", "", payload)
       ELSE Refuse("run", "", 400, "invalid request")
  /\ UNCHANGED <<use_rq, fallback_background>>
  /\ UNCHANGED <<vars, fvars, jvars, rvars>>

\* faulty variant of retry_job: a job that is done is retried too
RetryJob_AlsoDone ==
  /\ \E job \in JobIds :
       IF state_json[job] = <<>> THEN Refuse("retry", job, 404, "Job not found")
       ELSE IF state_json[job][1].status \notin {"failed", "canceled", "done"}
       THEN Refuse("retry", job, 400, "Only failed/canceled jobs can be retried.")
       ELSE IF debug_json[job] = <<>>
       THEN Refuse("retry", job, 400, "Retry data unavailable for this job.")
       ELSE \E exists \in BOOLEAN :
              LET payload == debug_json[job][1].request_payload
              IN IF payload.csv_path # "" /\ ~exists
                 THEN Refuse("retry", job, 400, "Retry source CSV is missing on disk.")
                 ELSE QueuePipelineJob("retry", job, payload)
  /\ UNCHANGED <<use_rq, fallback_background>>
  /\ UNCHANGED <<vars, fvars, jvars, rvars>>

\* POST /retry/{job_id}; the payload stored by _queue_pipeline_job has all the
\* required keys
RetryJob ==
  /\ \E job \in JobIds :
       IF state_json[job] = <<>> THEN Refuse("retry", job, 404, "Job not found")
       ELSE IF state_json[job][1].status \notin {"failed", "canceled"}
       THEN Refuse("retry", job, 400, "Only failed/canceled jobs can be retried.")
       ELSE IF debug_json[job] = <<>>
       THEN Refuse("retry", job, 400, "Retry data unavailable for this job.")
       ELSE \E exists \in BOOLEAN :
              LET payload == debug_json[job][1].request_payload
              IN IF payload.csv_path # "" /\ ~exists
                 THEN Refuse("retry", job, 400, "Retry source CSV is missing on disk.")
                 ELSE QueuePipelineJob("retry", job, payload)
  /\ UNCHANGED <<use_rq, fallback_background>>
  /\ UNCHANGED <<vars, fvars, jvars, rvars>>

\* the executor (the background task or the RQ worker) starts _execute_job
ExecutorStart ==
  /\ \E job \in Range(background_tasks) \cup Range(rq_queue) :
       /\ state_json[job] # <<>>
       /\ state_json[job][1].status = "queued"
       /\ state_json' = [state_json EXCEPT ![job] =
                           <<[@[1] EXCEPT !.status = "running", !.stage = "starting",
                                          !.progress_pct = 5]>>]
  /\ UNCHANGED <<use_rq, fallback_background, debug_json, report_txt, pdf,
                 background_tasks, rq_queue, http>>
  /\ UNCHANGED <<vars, fvars, jvars, rvars>>

\* _execute_job ends: done with the report and the PDF written; failed or
\* canceled, with debug.json and report.txt written (written = 2), debug.json
\* only (1, the write of the text files failed) or neither (0)
ExecutorFinish ==
  /\ \E job \in JobIds : \E status \in {"done", "failed", "canceled"} :
     \E report \in WriterTexts : \E written \in 0..2 :
       /\ state_json[job] # <<>>
       /\ state_json[job][1].status = "running"
       /\ status = "done" => written = 2
       /\ state_json' = [state_json EXCEPT ![job] =
                           <<[@[1] EXCEPT !.status = status, !.stage = status,
                                          !.progress_pct = 100]>>]
       /\ debug_json' = IF written >= 1 /\ debug_json[job] # <<>>
                        THEN [debug_json EXCEPT ![job] =
                                <<[@[1] EXCEPT !.writer_report = report]>>]
                        ELSE debug_json
       /\ report_txt' = IF written = 2 THEN [report_txt EXCEPT ![job] = report]
                        ELSE report_txt
       /\ pdf' = IF status = "done" THEN [pdf EXCEPT ![job] = <<report>>] ELSE pdf
  /\ UNCHANGED <<use_rq, fallback_background, background_tasks, rq_queue, http>>
  /\ UNCHANGED <<vars, fvars, jvars, rvars>>

\* GET /draft/{job_id}: report.txt, or the writer's text of debug.json, which is
\* then written to report.txt
GetDraft ==
  /\ \E job \in JobIds :
       IF state_json[job] = <<>> THEN Refuse("get_draft", job, 404, "Job not found")
       ELSE
         LET fallback == IF debug_json[job] = <<>> THEN <<>>
                         ELSE debug_json[job][1].writer_report
             draft_text == IF strip(report_txt[job]) # <<>> THEN report_txt[job]
                            ELSE fallback
         IN /\ report_txt' = IF strip(report_txt[job]) = <<>> /\ strip(fallback) # <<>>
                             THEN [report_txt EXCEPT ![job] = fallback]
                             ELSE report_txt
            /\ http' = <<[NoResponse EXCEPT
                            !.op = "get_draft", !.job_id = job, !.status_code = 200,
                            !.editable = Editable(state_json[job][1].status)]>>
            /\ UNCHANGED <<state_json, debug_json, pdf, background_tasks, rq_queue>>
  /\ UNCHANGED <<use_rq, fallback_background>>
  /\ UNCHANGED <<vars, fvars, jvars, rvars>>

\* faulty variant of save_draft: the draft of a running job is saved too
SaveDraft_WhileRunning ==
  /\ \E job \in JobIds : \E body \in DraftBodies :
       IF state_json[job] = <<>> THEN Refuse("save_draft", job, 404, "Job not found")
       ELSE IF ~Editable(state_json[job][1].status) /\ state_json[job][1].status # "running"
       THEN Refuse("save_draft", job, 400, "Draft editing is allowed only after job completion or failure.")
       ELSE IF strip(body) = <<>>
       THEN Refuse("save_draft", job, 400, "Draft report text cannot be empty.")
       ELSE /\ report_txt' = [report_txt EXCEPT ![job] = strip(body)]
            /\ Respond("save_draft", job, 200, "saved")
            /\ UNCHANGED <<state_json, debug_json, pdf, background_tasks, rq_queue>>
  /\ UNCHANGED <<use_rq, fallback_background>>
  /\ UNCHANGED <<vars, fvars, jvars, rvars>>

\* POST /draft/{job_id}
SaveDraft ==
  /\ \E job \in JobIds : \E body \in DraftBodies :
       IF state_json[job] = <<>> THEN Refuse("save_draft", job, 404, "Job not found")
       ELSE IF ~Editable(state_json[job][1].status)
       THEN Refuse("save_draft", job, 400, "Draft editing is allowed only after job completion or failure.")
       ELSE IF strip(body) = <<>>
       THEN Refuse("save_draft", job, 400, "Draft report text cannot be empty.")
       ELSE /\ report_txt' = [report_txt EXCEPT ![job] = strip(body)]
            /\ Respond("save_draft", job, 200, "saved")
            /\ UNCHANGED <<state_json, debug_json, pdf, background_tasks, rq_queue>>
  /\ UNCHANGED <<use_rq, fallback_background>>
  /\ UNCHANGED <<vars, fvars, jvars, rvars>>

\* POST /rebuild/{job_id}: the PDF is built from report.txt
RebuildJobPdf ==
  /\ \E job \in JobIds :
       IF state_json[job] = <<>> THEN Refuse("rebuild", job, 404, "Job not found")
       ELSE IF ~Editable(state_json[job][1].status)
       THEN Refuse("rebuild", job, 400, "PDF rebuild is allowed only after job completion or failure.")
       ELSE /\ pdf' = [pdf EXCEPT ![job] = <<report_txt[job]>>]
            /\ Respond("rebuild", job, 200, "")
            /\ UNCHANGED <<state_json, debug_json, report_txt, background_tasks, rq_queue>>
  /\ UNCHANGED <<use_rq, fallback_background>>
  /\ UNCHANGED <<vars, fvars, jvars, rvars>>

\* POST /quality-fix/{job_id}: _apply_quality_fix_for_job; wr is what
\* writer_run returns: a failure (<<>>) or a report text
QualityFixJob ==
  /\ \E job \in JobIds : \E wr \in {<<>>} \cup {<<t>> : t \in WriterTexts \cup {<<SP>>}} :
       IF state_json[job] = <<>> THEN Refuse("quality_fix", job, 404, "Job not found")
       ELSE IF ~Editable(state_json[job][1].status)
       THEN Refuse("quality_fix", job, 400, "Quality fix is allowed only after job completion or failure.")
       ELSE IF strip(report_txt[job]) = <<>>
       THEN Refuse("quality_fix", job, 400, "No report draft available for quality fix.")
       ELSE IF evaluate_report_quality(report_txt[job], JobTemplate).ok
       THEN Refuse("quality_fix", job, 200, "")
       ELSE IF wr = <<>>
       THEN Refuse("quality_fix", job, 500, "Quality fix failed")
       ELSE IF strip(wr[1]) = <<>>
       THEN Refuse("quality_fix", job, 500, "Quality fix returned empty report.")
       ELSE /\ report_txt' = [report_txt EXCEPT ![job] = wr[1]]
            /\ pdf' = [pdf EXCEPT ![job] = <<wr[1]>>]
            /\ Respond("quality_fix", job, 200, "")
            /\ UNCHANGED <<state_json, debug_json, background_tasks, rq_queue>>
  /\ UNCHANGED <<use_rq, fallback_background>>
  /\ UNCHANGED <<vars, fvars, jvars, rvars>>

\* POST /regenerate-section/{job_id}: target is the section of the body, reply
\* what chat() returns (<<>> without a reply: chat() raises)
RegenerateSection ==
  /\ \E job \in JobIds : \E target \in Targets :
     \E reply \in {<<>>} \cup {<<t>> : t \in ChatReplies} :
       LET headers == JobTemplate.writer_format
           draft_text == report_txt[job]
           secs == split_by_headers(draft_text, headers)
       IN IF state_json[job] = <<>> THEN Refuse("regenerate", job, 404, "Job not found")
          ELSE IF ~Editable(state_json[job][1].status)
          THEN Refuse("regenerate", job, 400, "Section regeneration is allowed only after job completion or failure.")
          ELSE IF strip(target) = <<>>
          THEN Refuse("regenerate", job, 400, "Section is required.")
          ELSE IF strip(target) \notin Range(headers)
          THEN Refuse("regenerate", job, 400, "Unknown section")
          ELSE IF strip(draft_text) = <<>>
          THEN Refuse("regenerate", job, 400, "No report draft available for regeneration.")
          ELSE IF reply = <<>>
          THEN Refuse("regenerate", job, 500, "Internal Server Error")
          ELSE IF strip(reply[1]) = <<>>
          THEN Refuse("regenerate", job, 500, "Model returned empty section content.")
          ELSE LET new_body == strip(reply[1])
                   new_report == join_sections([secs EXCEPT ![strip(target)] = new_body],
                                               headers)
               IN /\ Len(new_report) <= MaxReportLen
                  /\ report_txt' = [report_txt EXCEPT ![job] = new_report]
                  /\ pdf' = [pdf EXCEPT ![job] = <<new_report>>]
                  /\ http' = <<[NoResponse EXCEPT
                                  !.op = "regenerate", !.job_id = job, !.status_code = 200,
                                  !.section = strip(target), !.new_body = new_body]>>
                  /\ UNCHANGED <<state_json, debug_json, background_tasks, rq_queue>>
  /\ UNCHANGED <<use_rq, fallback_background>>
  /\ UNCHANGED <<vars, fvars, jvars, rvars>>

\* the requests that queue jobs, and the executors
QueueNext == Run \/ RetryJob \/ ExecutorStart \/ ExecutorFinish

QueueSpec == QueueInit /\ [][QueueNext]_<<vars, fvars, jvars, avars, rvars>>

\* the state after POST /run was answered for a job handed to a background task
DraftInit ==
  /\ NoRun
  /\ NoCall
  /\ NoJob
  /\ NoRate
  /\ use_rq = FALSE
  /\ fallback_background = TRUE
  /\ state_json = [j \in JobIds |-> IF j = "J1" THEN <<queued_state("background", <<>>)>>
                                    ELSE <<>>]
  /\ debug_json = [j \in JobIds |->
                     IF j = "J1"
                     THEN <<[request_payload |-> [template |-> "lab_report", csv_path |-> ""],
                             retry_of |-> "", writer_report |-> <<>>]>>
                     ELSE <<>>]
  /\ report_txt = [j \in JobIds |-> <<>>]
  /\ pdf = [j \in JobIds |-> <<>>]
  /\ background_tasks = <<"J1">>
  /\ rq_queue = <<>>
  /\ http = <<>>

\* the executor and the requests on the draft of a job
DraftNext ==
  \/ ExecutorStart \/ ExecutorFinish
  \/ GetDraft \/ SaveDraft \/ RebuildJobPdf \/ QualityFixJob \/ RegenerateSection

DraftSpec == DraftInit /\ [][DraftNext]_<<vars, fvars, jvars, avars, rvars>>

\* ------------------------------------------------------------------ main.py: the rate limiter of /run

\* request.client.host
Clients == {"a", "b"}

RECURSIVE PopExpired_Inclusive(_, _)
\* faulty variant of PopExpired: a time equal to the cutoff is dropped too
PopExpired_Inclusive(q, cutoff) ==
  IF q # <<>> /\ Head(q) <= cutoff THEN PopExpired_Inclusive(Tail(q), cutoff) ELSE q

RECURSIVE PopExpired(_, _)
\* while q and q[0] < cutoff: q.popleft()
PopExpired(q, cutoff) ==
  IF q # <<>> /\ Head(q) < cutoff THEN PopExpired(Tail(q), cutoff) ELSE q

RateInit ==
  /\ NoRun
  /\ NoCall
  /\ NoJob
  /\ NoApi
  /\ RATE_LIMIT_ENABLED \in BOOLEAN
  /\ RATE_LIMIT_BUCKETS = [ip \in Clients |-> <<>>]
  /\ monotonic = 0
  /\ passed = [ip \in Clients |-> <<>>]
  /\ rate_response = <<>>

\* time passes
Tick ==
  /\ monotonic < MaxClock
  /\ monotonic' = monotonic + 1
  /\ UNCHANGED <<RATE_LIMIT_ENABLED, RATE_LIMIT_BUCKETS, passed, rate_response>>
  /\ UNCHANGED <<vars, fvars, jvars, avars>>

\* _check_rate_limit(request) of a call to /run: one step, as run is a
\* coroutine that reaches it without awaiting and the bucket is used under
\* RATE_LIMIT_LOCK; 200 stands for the call going on
CheckRateLimit ==
  /\ \E ip \in Clients :
       IF ~RATE_LIMIT_ENABLED
       THEN /\ Len(passed[ip]) < MaxPassed
            /\ passed' = [passed EXCEPT ![ip] = Append(@, monotonic)]
            /\ rate_response' = <<ip, 200>>
            /\ UNCHANGED RATE_LIMIT_BUCKETS
       ELSE LET now == monotonic
                cutoff == now - RATE_LIMIT_WINDOW_SECONDS
                q == PopExpired(RATE_LIMIT_BUCKETS[ip], cutoff)
            IN IF Len(q) >= RATE_LIMIT_MAX_REQUESTS
               THEN /\ RATE_LIMIT_BUCKETS' = [RATE_LIMIT_BUCKETS EXCEPT ![ip] = q]
                    /\ rate_response' = <<ip, 429>>
                    /\ UNCHANGED passed
               ELSE /\ Len(passed[ip]) < MaxPassed
                    /\ RATE_LIMIT_BUCKETS' = [RATE_LIMIT_BUCKETS EXCEPT ![ip] = Append(q, now)]
                    /\ passed' = [passed EXCEPT ![ip] = Append(@, now)]
                    /\ rate_response' = <<ip, 200>>
  /\ UNCHANGED <<RATE_LIMIT_ENABLED, monotonic>>
  /\ UNCHANGED <<vars, fvars, jvars, avars>>

RateNext == Tick \/ CheckRateLimit

RateSpec == RateInit /\ [][RateNext]_<<vars, fvars, jvars, avars, rvars>>

\* ------------------------------------------------------------------ properties of run_pipeline

\* how often a step was invoked
Count(step) == Cardinality({i \in DOMAIN calls : calls[i] = step})

\* invocations of the write step: first write, repair write, quality-fix write
WriteCalls == Count("writer") + Count("writer_repair") + Count("quality_fix")

\* the first write succeeded and left the section of a required header empty
FirstWriteHasEmptySection ==
  /\ w1.ok
  /\ \E h \in Range(template_cfg.writer_format) :
       strip(Get(Get(w1.payload, "sections", <<>>), h, <<>>)) = <<>>

\* the repair write ran, succeeded and returned text
RepairTaken == w2.ok /\ Get(w2.payload, "report_text", <<>>) # <<>>

\* the report as it stands when the quality gate first runs
PreFixReport ==
  IF RepairTaken THEN w2.payload.report_text ELSE Get(w1.payload, "report_text", <<>>)

\* the gate fails on the report as it stands when the gate first runs
PreFixGateFails == ~evaluate_report_quality(PreFixReport, template_cfg).ok

\* C1 as stated: when a required header's section is empty after the first write,
\* a run that returns has invoked the write step exactly twice.
C1_ExactlyTwoWrites ==
  (pc = "returned" /\ FirstWriteHasEmptySection) => WriteCalls = 2

\* C1 (amended): when a required header's section is empty after the first write,
\* a run that returns has invoked the repair write exactly once, whatever its
\* outcome, and the write step two or three times: a third time (the quality-fix
\* write) exactly when the gate fails on the report as it stands after the repair.
C1_OneRepairThenAtMostOneFix ==
  (pc = "returned" /\ FirstWriteHasEmptySection) =>
    /\ Count("writer") = 1
    /\ Count("writer_repair") = 1
    /\ Count("quality_fix") <= 1
    /\ WriteCalls = 2 + Count("quality_fix")
    /\ (WriteCalls = 3) <=> PreFixGateFails

C1_Witness ==
  /\ pc = "returned"
  /\ FirstWriteHasEmptySection
  /\ ~w2.ok
  /\ WriteCalls = 3

\* C2 as stated: when the gate passes on the text of the first write, a run that
\* returns has invoked the write step exactly once.
C2_GatePassMeansOneWrite ==
  (/\ pc = "returned"
   /\ w1.ok
   /\ evaluate_report_quality(w1.payload.report_text, template_cfg).ok)
  => WriteCalls = 1

\* C2 (amended): when the gate passes on the text of the first write and no
\* required header's section is empty after the first write, a run that returns
\* has invoked the write step exactly once (no repair, no quality fix).
C2_GatePassAndNoEmptySectionMeansOneWrite ==
  (/\ pc = "returned"
   /\ w1.ok
   /\ evaluate_report_quality(w1.payload.report_text, template_cfg).ok
   /\ ~FirstWriteHasEmptySection)
  => /\ WriteCalls = 1
     /\ calls[Len(calls)] # "writer_repair"
     /\ result[1].report = w1.payload.report_text

C2_Witness ==
  /\ pc = "returned"
  /\ template_cfg.writer_format # <<>>
  /\ evaluate_report_quality(w1.payload.report_text, template_cfg).ok
  /\ ~FirstWriteHasEmptySection
  /\ WriteCalls = 1

\* C3 as stated: every invocation of a step, the quality-fix write included,
\* consults should_cancel() first and happens only if it returned false.
C3_CancelConsultedBeforeEveryStep ==
  [][Len(calls') > Len(calls) => (cancel_checks' = cancel_checks + 1 /\ ~cancel_requested)]_vars

\* C4: a check that finds the predicate true ends the run with CancelledError,
\* without a result and without a further invocation; once the predicate is true
\* before the data step started, the data step is never invoked.
C4_CancelRaisesBeforePendingStep ==
  [][/\ pc \notin {"raised", "returned"}
     /\ (cancel_checks' > cancel_checks /\ cancel_requested) =>
          /\ pc' = "raised"
          /\ raised' = <<[type |-> "CancelledError", text |-> <<"Job canceled by user.">>]>>
          /\ result' = <<>>
          /\ calls' = calls
     /\ (cancel_requested /\ Count("data") = 0) => calls' = calls]_vars

C4_Witness ==
  /\ pc = "raised"
  /\ raised[1].type = "CancelledError"
  /\ calls = <<"research">>
  /\ r1.ok

\* C5: a failure of research, data or the first write ends the run with a
\* RuntimeError "[<step>] <message>: <detail>"; the step was invoked once, it is
\* the last step invoked, and no result exists.
C5_FatalStepFailure ==
  \A step \in {"research", "data", "writer"} :
    LET r == IF step = "research" THEN r1 ELSE IF step = "data" THEN d1 ELSE w1
    IN (r.agent = step /\ ~r.ok) =>
         /\ pc = "raised"
         /\ raised = <<[type |-> "RuntimeError",
                        text |-> <<"[", step, "] ", r.error[1].message, ": ">>
                                 \o r.error[1].detail]>>
         /\ calls[Len(calls)] = step
         /\ Count(step) = 1
         /\ result = <<>>

C5_Witness ==
  /\ pc = "raised"
  /\ d1.ok
  /\ w1.agent = "writer"
  /\ ~w1.ok

\* C6: at most one repair write and at most one quality-fix write, hence at most
\* three invocations of the write step.
C6_AtMostThreeWrites ==
  /\ Count("writer") <= 1
  /\ Count("writer_repair") <= 1
  /\ Count("quality_fix") <= 1
  /\ WriteCalls <= 3

C6_Witness ==
  /\ pc = "returned"
  /\ Count("writer_repair") = 1
  /\ Count("quality_fix") = 1

\* the order of the steps of a run
StepOrder ==
  <<"research", "data", "writer", "writer_repair", "reviewer", "diagram", "quality_fix">>

Rank(step) == CHOOSE i \in DOMAIN StepOrder : StepOrder[i] = step

\* the key of timings_ms that a completed step has set
TimingKey(step) == IF step = "quality_fix" THEN "writer_quality_fix" ELSE step

\* C7: the steps are invoked in the order research, data, write, write_repair,
\* review, diagram, quality_fix, each at most once and only when every step
\* invoked before has completed; a result is returned only when every invoked
\* step has completed and every applicable step was invoked.
C7_StepOrder ==
  /\ \A i, j \in DOMAIN calls : i < j => Rank(calls[i]) < Rank(calls[j])
  /\ \A i \in DOMAIN calls : i <= 3 => calls[i] = StepOrder[i]
  /\ \A i \in 1..(Len(calls) - 1) : TimingKey(calls[i]) \in timings_ms
  /\ pc = "returned" =>
       /\ result # <<>>
       /\ Len(calls) >= 3
       /\ \A i \in DOMAIN calls : TimingKey(calls[i]) \in timings_ms
       /\ Count("writer_repair") = 1 <=> FirstWriteHasEmptySection
       /\ Count("reviewer") = 1 <=> (include_review /\ template_cfg.include_review)
       /\ Count("diagram") = 1 <=>
            (template_cfg.include_figures /\ Get(d1.payload, "data_summary", <<>>) # <<>>)
       /\ Count("quality_fix") = 1 <=> PreFixGateFails

C7_Witness ==
  /\ pc = "returned"
  /\ calls = StepOrder

\* C8: right after a repair write, report text and section mapping are both those
\* of the repair write if it succeeded with non-empty text, and both those of the
\* first write otherwise; nothing is raised.
C8_RepairAcceptedIffOkAndNonEmpty ==
  (pc = "reviewer" /\ w2.agent = "writer") =>
    /\ raised = <<>>
    /\ IF w2.ok /\ Get(w2.payload, "report_text", <<>>) # <<>>
       THEN /\ report_text = w2.payload.report_text
            /\ sections = w2.payload.sections
       ELSE /\ report_text = w1.payload.report_text
            /\ sections = w1.payload.sections

C8_Witness ==
  /\ pc = "reviewer"
  /\ w2.ok
  /\ report_text = w2.payload.report_text
  /\ report_text # w1.payload.report_text
  /\ sections # w1.payload.sections

\* C9: a run that returns has invoked the quality-fix write exactly when the gate
\* failed on the report as it stood after repair, review and diagram; the
\* returned report is the text of that write if it succeeded with non-empty text
\* and the earlier report otherwise; the returned quality report is the gate's
\* evaluation of the returned report, passing or not.
C9_QualityFixAndFinalQuality ==
  pc = "returned" =>
    LET res == result[1]
        fixTaken == wq.ok /\ Get(wq.payload, "report_text", <<>>) # <<>>
    IN /\ Count("quality_fix") = 1 <=> PreFixGateFails
       /\ wq.agent = "writer" <=> PreFixGateFails
       /\ res.report = IF fixTaken THEN wq.payload.report_text ELSE PreFixReport
       /\ res.report_sections = IF template_cfg.writer_format # <<>>
                                THEN split_by_headers(res.report, template_cfg.writer_format)
                                ELSE <<>>
       /\ res.quality = evaluate_report_quality(res.report, template_cfg)

C9_Witness ==
  /\ pc = "returned"
  /\ Count("quality_fix") = 1
  /\ wq.ok
  /\ result[1].report = wq.payload.report_text
  /\ result[1].report # PreFixReport
  /\ ~result[1].quality.ok

ReviewFailed == "ok" \in DOMAIN reviewer_status /\ ~reviewer_status.ok

DiagramFailed == "ok" \in DOMAIN diagram_status /\ ~diagram_status.ok

\* C10: a failed review or diagram step raises nothing (the only exception after
\* it is the cancellation); the run goes on with the following steps and the
\* result it returns has an empty review text (figures text).
C10_ReviewAndDiagramFailuresAbsorbed ==
  /\ (ReviewFailed \/ DiagramFailed) =>
       /\ pc # "reviewer_run"
       /\ raised # <<>> => (cancel_requested /\ raised[1].type = "CancelledError")
  /\ (ReviewFailed /\ pc = "returned") =>
       /\ result[1].review = <<>>
       /\ Count("diagram") = 1 <=>
            (template_cfg.include_figures /\ Get(d1.payload, "data_summary", <<>>) # <<>>)
       /\ quality # <<>>
       /\ result[1].quality = quality[1]
  /\ (DiagramFailed /\ pc = "returned") =>
       /\ result[1].figures = <<>>
       /\ quality # <<>>
       /\ Count("quality_fix") = 1 <=> PreFixGateFails

C10_Witness ==
  /\ pc = "returned"
  /\ ReviewFailed
  /\ DiagramFailed
  /\ Count("quality_fix") = 1

\* the entries of agent_status that hold a step's result
StatusKeys == {"research", "data", "writer", "reviewer", "diagram"}

\* the status map shows a write that did not succeed
WriterFailureShown(agent_status) ==
  \E k \in StatusKeys : "ok" \in DOMAIN agent_status[k] /\ agent_status[k].agent = "writer" /\ ~agent_status[k].ok

\* the quality-fix write ran, succeeded and returned text
FixTaken == wq.ok /\ Get(wq.payload, "report_text", <<>>) # <<>>

\* C11 as stated: a failed review or diagram step and a repair or quality-fix
\* write that failed or returned no text each show in the returned agent_status.
C11_AbsorbedFailuresShowInStatus ==
  pc = "returned" =>
    LET agent_status == result[1].agent_status
    IN /\ ReviewFailed => ~agent_status.reviewer.ok
       /\ DiagramFailed => ~agent_status.diagram.ok
       /\ (w2.agent = "writer" /\ ~RepairTaken) => WriterFailureShown(agent_status)
       /\ (wq.agent = "writer" /\ ~FixTaken) => WriterFailureShown(agent_status)

\* C11 (amended): only a failed research, data or first write and the
\* cancellation are raised; a failed review or diagram step is the reviewer
\* (diagram) entry of the returned agent_status; the outcome of the repair and
\* quality-fix writes is not in agent_status: its writer entry is the successful
\* first write, and timings_ms has the retry's key whenever the retry ran.
C11_OnlyReviewAndDiagramFailuresShowInStatus ==
  /\ pc = "raised" =>
       \/ raised[1].type = "CancelledError"
       \/ /\ raised[1].type = "RuntimeError"
          /\ \/ (raised[1].text[2] = "research" /\ ~r1.ok)
             \/ (raised[1].text[2] = "data" /\ ~d1.ok)
             \/ (raised[1].text[2] = "writer" /\ ~w1.ok)
  /\ pc = "returned" =>
       LET agent_status == result[1].agent_status
       IN /\ raised = <<>>
          /\ ReviewFailed => (agent_status.reviewer = reviewer_status /\ ~agent_status.reviewer.ok)
          /\ DiagramFailed => (agent_status.diagram = diagram_status /\ ~agent_status.diagram.ok)
          /\ agent_status.writer = w1
          /\ agent_status.writer.ok
          /\ ~WriterFailureShown(agent_status)
          /\ "writer_repair" \in agent_status.timings_ms <=> w2.agent = "writer"
          /\ "writer_quality_fix" \in agent_status.timings_ms <=> wq.agent = "writer"

C11_Witness ==
  /\ pc = "returned"
  /\ w2.agent = "writer" /\ ~w2.ok
  /\ wq.agent = "writer" /\ ~wq.ok
  /\ ReviewFailed
  /\ result[1].agent_status.writer.ok

\* C12: the review step is invoked only if the caller and the template both ask
\* for it, and a run that returns has invoked it exactly in that case; while it
\* is not invoked the review text is empty and the reviewer status is skipped.
C12_ReviewOnlyIfCallerAndTemplate ==
  /\ Count("reviewer") > 0 => (include_review /\ template_cfg.include_review)
  /\ Count("reviewer") = 0 => (review_text = <<>> /\ reviewer_status = [skipped |-> TRUE])
  /\ pc = "returned" =>
       /\ Count("reviewer") = 1 <=> (include_review /\ template_cfg.include_review)
       /\ Count("reviewer") = 0 =>
            /\ result[1].review = <<>>
            /\ result[1].agent_status.reviewer = [skipped |-> TRUE]

C12_Witness ==
  /\ pc = "returned"
  /\ include_review
  /\ ~template_cfg.include_review
  /\ Count("reviewer") = 0
  /\ result[1].review = <<>>

\* C13: the diagram step is invoked only if the template enables figures and
\* the data step returned a non-empty data summary; a run without a csv file
\* never invokes it and its figures text is empty.
C13_DiagramOnlyWithDataSummary ==
  /\ Count("diagram") > 0 =>
       /\ template_cfg.include_figures
       /\ d1.ok
       /\ Get(d1.payload, "data_summary", <<>>) # <<>>
  /\ csv_path = "" =>
       /\ Count("diagram") = 0
       /\ figures_text = <<>>
       /\ d1.ok => Get(d1.payload, "data_summary", <<>>) = <<>>
       /\ pc = "returned" =>
            /\ result[1].figures = <<>>
            /\ result[1].agent_status.diagram = [skipped |-> TRUE]

C13_Witness ==
  /\ pc = "returned"
  /\ csv_path = ""
  /\ template_cfg.include_figures
  /\ Count("diagram") = 0
  /\ result[1].figures = <<>>

\* the details f"{class name}: {message}" of the exceptions chat() and
\* pd.read_csv end with
RaisedDetails ==
  {<<o.name, ": ", o.msg>> : o \in {c \in chat({}) \cup ReadCsv : c.raised}}

\* a StepResult that is a success, or a failure with its cause
IsStepResult(res, agent) ==
  /\ res.agent = agent
  /\ \/ res.ok /\ res.error = <<>>
     \/ /\ ~res.ok /\ res.payload = <<>> /\ res.error # <<>>
        /\ \/ res.error[1].detail \in RaisedDetails
           \/ /\ agent = "reviewer" /\ res.error[1].detail = <<>>
              /\ res.error[1].message = "No report provided to reviewer"

\* C25: every step that was invoked returned a StepResult that is a success (ok,
\* no error) or a failure (not ok, empty payload, an error); a failure caused
\* by an exception has the exception's class name and message as its detail;
\* the steps raise nothing: what run_pipeline raises is raised after a step
\* returned a failure, or is the cancellation.
C25_StepsReturnSuccessOrFailure ==
  /\ r1.agent # "" => IsStepResult(r1, "research")
  /\ d1.agent # "" => IsStepResult(d1, "data")
  /\ w1.agent # "" => IsStepResult(w1, "writer")
  /\ w2.agent # "" => IsStepResult(w2, "writer")
  /\ wq.agent # "" => IsStepResult(wq, "writer")
  /\ "ok" \in DOMAIN reviewer_status => IsStepResult(reviewer_status, "reviewer")
  /\ "ok" \in DOMAIN diagram_status => IsStepResult(diagram_status, "diagram")
  /\ raised # <<>> =>
       \/ raised[1].type = "CancelledError"
       \/ /\ raised[1].type = "RuntimeError"
          /\ raised[1].text[2] = "research" => IsStepResult(r1, "research") /\ ~r1.ok
          /\ raised[1].text[2] = "data" => IsStepResult(d1, "data") /\ ~d1.ok
          /\ raised[1].text[2] = "writer" => IsStepResult(w1, "writer") /\ ~w1.ok

C25_Witness ==
  /\ pc = "returned"
  /\ r1.ok /\ d1.ok /\ w1.ok
  /\ w2.agent = "writer" /\ ~w2.ok /\ w2.error[1].detail = <<"LLMError", ": ", "LLM request failed after 3 attempts">>
  /\ ReviewFailed
  /\ reviewer_status.error[1].detail = <<"RuntimeError", ": ", "Missing LLM_API_KEY in .env">>
  /\ "ok" \in DOMAIN diagram_status /\ diagram_status.ok

\* ------------------------------------------------------------------ properties of the section splitter and joiner

\* the line, trimmed, is the header followed by a colon
IsExactHeaderLine(ln, h) == strip(ln) = h \o <<COLON>>

\* the line, trimmed, is the header, white space or none, and a colon
IsHeaderLine(ln, h) ==
  LET t == strip(ln)
  IN /\ Len(t) > Len(h)
     /\ SubSeq(t, 1, Len(h)) = h
     /\ t[Len(t)] = COLON
     /\ \A i \in (Len(h) + 1)..(Len(t) - 1) : IsSpace(t[i])

\* the splitter described line by line: line i opens the section of h if it
\* is a header line of h (exactly, or with white space before the colon); a
\* line that opens no section belongs to the section opened last before it
LineOpens(lines, i, h, exact) ==
  IF exact THEN IsExactHeaderLine(lines[i], h) ELSE IsHeaderLine(lines[i], h)

LineOpensAny(lines, i, headers, exact) ==
  \E h \in Range(headers) : LineOpens(lines, i, h, exact)

BodyLines(lines, k, headers, exact) ==
  LET idx == [i \in 1..Len(lines) |-> i]
      sel == SelectSeq(idx, LAMBDA i :
               /\ ~LineOpensAny(lines, i, headers, exact)
               /\ \E j \in 1..(i - 1) :
                    /\ LineOpens(lines, j, k, exact)
                    /\ \A m \in (j + 1)..(i - 1) : ~LineOpensAny(lines, m, headers, exact))
  IN [n \in 1..Len(sel) |-> lines[sel[n]]]

ReferenceSplit(text, headers, exact) ==
  [k \in Range(headers) |-> strip(join(<<NL>>, BodyLines(splitlines(text), k, headers, exact)))]

\* each value trimmed
Trimmed(secs) == [k \in DOMAIN secs |-> strip(secs[k])]

\* no line of the value is "{header}:" for a header of the list
NoLineEqualToHeader(v, headers) ==
  \A i \in DOMAIN splitlines(v) :
    \A h \in Range(headers) : splitlines(v)[i] # h \o <<COLON>>

\* no line of the value opens a section, and its line breaks are "\n" only
Unambiguous(v, headers) ==
  /\ \A i \in DOMAIN v : v[i] # CR
  /\ \A i \in DOMAIN splitlines(v) :
       \A h \in Range(headers) : ~IsHeaderLine(splitlines(v)[i], h)

C15_SplitIsExactMatchSplitter ==
  (fn = "split" /\ Len(ret) = 1) => ret[1] = ReferenceSplit(a_text, a_headers, TRUE)

\* C15 (amended): split_by_headers is the splitter in which a line opens a
\* section exactly when, trimmed, it is a header, optional white space and a
\* colon; the later lines up to the next such line are that section's body, the
\* lines before the first such line belong to no body, and the result has one
\* key per requested header, mapped to the trimmed body ("" if never seen).
C15_SplitToleratesSpaceBeforeColon ==
  (fn = "split" /\ Len(ret) = 1) =>
    /\ DOMAIN ret[1] = Range(a_headers)
    /\ ret[1] = ReferenceSplit(a_text, a_headers, FALSE)

C15_Witness ==
  /\ fn = "split" /\ Len(ret) = 1
  /\ a_headers = <<hA>>
  /\ a_text = <<"A", SP, COLON, NL, "x">>
  /\ ret[1][hA] = <<"x">>

\* ------------------------------------------------------------------ properties of the quality gate

\* the sections of the document under the template's headers
GateSections ==
  IF a_cfg.writer_format # <<>>
  THEN ReferenceSplit(a_text, a_cfg.writer_format, FALSE) ELSE <<>>

\* the body the gate looks at for a section name
GateBody(sec) == strip(Get(GateSections, sec, <<>>))

\* the number of maximal runs of non-space characters
WordsIn(b) ==
  Cardinality({i \in 1..Len(b) : ~IsSpace(b[i]) /\ (i = 1 \/ IsSpace(b[i - 1]))})

\* the gate's result has an issue of the kind for the section
HasIssue(out, kind, sec) ==
  \E i \in DOMAIN out.issues : out.issues[i].kind = kind /\ out.issues[i].section = sec

\* the section names of the rules and of the issues
RuleSections(out) ==
  {a_cfg.quality.min_words[i][1] : i \in DOMAIN a_cfg.quality.min_words}
  \cup {a_cfg.quality.required_terms_by_section[i][1] :
          i \in DOMAIN a_cfg.quality.required_terms_by_section}
  \cup {out.issues[i].section : i \in DOMAIN out.issues}

\* C16: for a section with a non-empty body, too_short is emitted exactly when
\* a word minimum is configured for it and the body has fewer words, and
\* missing_term exactly when a non-empty term list is configured for it and the
\* body contains none of the terms, case ignored; a section with an empty body
\* gets neither; ok is false whenever an issue is emitted.
C16_TooShortAndMissingTerm ==
  (fn = "quality" /\ Len(ret) = 1) =>
    LET out == ret[1]
        min_words == a_cfg.quality.min_words
        terms_by_section == a_cfg.quality.required_terms_by_section
    IN /\ \A sec \in RuleSections(out) :
            LET body == GateBody(sec)
            IN /\ HasIssue(out, "too_short", sec) <=>
                    /\ body # <<>>
                    /\ \E i \in DOMAIN min_words :
                         min_words[i][1] = sec /\ WordsIn(body) < min_words[i][2]
               /\ HasIssue(out, "missing_term", sec) <=>
                    /\ body # <<>>
                    /\ \E i \in DOMAIN terms_by_section :
                         /\ terms_by_section[i][1] = sec
                         /\ terms_by_section[i][2] # <<>>
                         /\ \A t \in Range(terms_by_section[i][2]) :
                              ~Contains(lower(body), lower(t))
               /\ body = <<>> =>
                    (~HasIssue(out, "too_short", sec) /\ ~HasIssue(out, "missing_term", sec))
       /\ out.issues # <<>> => ~out.ok

C16_Witness ==
  /\ fn = "quality" /\ Len(ret) = 1
  /\ a_text = <<"A", COLON, NL, "A">>
  /\ HasIssue(ret[1], "too_short", hA)
  /\ HasIssue(ret[1], "missing_term", hA)
  /\ ~ret[1].ok

\* the document has a line that is the header and a colon alone, case ignored
\* and white space around the header and the colon tolerated
HasHeaderLine(text, h) ==
  \E i \in 1..(Len(text) + 1) : \E j \in (i - 1)..Len(text) :
    /\ i = 1 \/ text[i - 1] = NL
    /\ j = Len(text) \/ text[j + 1] = NL
    /\ \A m \in i..j : text[m] # NL
    /\ IsHeaderLine(lower(SubSeq(text, i, j)), lower(h))

KindRank(kind) ==
  CASE kind = "missing_header" -> 1
    [] kind = "too_short" -> 2
    [] kind = "missing_term" -> 3
    [] kind = "missing_global_term" -> 4

\* C17: missing_header is emitted for exactly the required headers for which
\* the document has no line that is the header and a colon alone (case
\* ignored, white space tolerated); the issues come in the order missing_header,
\* too_short, missing_term, missing_global_term; ok is true iff there is no issue.
C17_MissingHeaderOrderAndOk ==
  (fn = "quality" /\ Len(ret) = 1) =>
    LET out == ret[1]
    IN /\ \A h \in Range(a_cfg.writer_format) :
            HasIssue(out, "missing_header", h) <=> ~HasHeaderLine(a_text, h)
       /\ \A i \in DOMAIN out.issues :
            out.issues[i].kind = "missing_header" =>
              out.issues[i].section \in Range(a_cfg.writer_format)
       /\ \A i, j \in DOMAIN out.issues :
            i < j => KindRank(out.issues[i].kind) <= KindRank(out.issues[j].kind)
       /\ out.ok <=> out.issues = <<>>

\* ------------------------------------------------------------------ properties of a job

\* cancel_job wrote its request while the worker was inside run_pipeline
CancelledInPipeline ==
  \E i \in DOMAIN cancel_log :
    cancel_log[i].wpc \in {"check", "progress", "run"} /\ cancel_log[i].wstep \in PipelineSteps

\* the persisted state of a job that ended as canceled
PersistedCanceled(f) ==
  f # <<>> /\ f[1].status = "canceled" /\ f[1].stage = "canceled" /\ f[1].progress_pct = 100

\* C19: once cancel_job has written its request while the worker was inside
\* run_pipeline, the worker's next cancellation check finds it, and the worker
\* then persists status canceled, stage canceled, progress_pct 100; a worker
\* that starts on a state whose cancellation was requested persists the same
\* without running the pipeline.
C19_CancelObservedAtNextCheck ==
  [][/\ (CancelledInPipeline /\ wpc = "check" /\ wpc' # wpc) =>
          (wpc' = "raised" /\ caught' = "CancelledError")
     /\ (wpc = "raised" /\ caught = "CancelledError" /\ wpc' # wpc) =>
          (wpc' = "written" /\ PersistedCanceled(file'))
     /\ (wpc = "queued" /\ is_canceled /\ wpc' # wpc) => wpc' = "started"
     /\ (wpc = "started" /\ st[1].cancellation_requested /\ wpc' # wpc) =>
          (wpc' = "written" /\ wstep' = 0 /\ PersistedCanceled(file'))
    ]_jvars

\* the persisted state is final and agrees with how the worker ended
FinalState(f) ==
  /\ f # <<>>
  /\ f[1].status \in {"done", "failed", "canceled"}
  /\ f[1].stage = f[1].status
  /\ f[1].progress_pct = 100
  /\ caught = "CancelledError" => f[1].status = "canceled"
  /\ caught \notin {"", "CancelledError"} => (f[1].status = "failed" /\ f[1].error # <<>>)
  /\ (caught = "" /\ wstep = Len(Steps)) => f[1].status = "done"

\* C20: at the moment _execute_job returns for a job whose state file existed,
\* the persisted status is done, failed or canceled, the stage equals it and
\* progress_pct is 100: done after the PDF was built, canceled after a
\* CancelledError, failed with the error recorded after any other exception.
C20_FinalStateOnReturn ==
  [][(wpc # "returned" /\ wpc' = "returned" /\ st # <<>>) => FinalState(file')]_jvars

\* the persisted status is done, failed or canceled
Finished(f) == f # <<>> /\ f[1].status \in {"done", "failed", "canceled"}

\* a step of cancel_job: its read (with the answers that need no write) or its write
CancelJobReads == cancels' # cancels
CancelJobWrites == cst # <<>> /\ cst' = <<>>

\* C21: cancel_job on a job whose persisted status is done, failed or canceled
\* changes nothing in the persisted state and answers that the job is already
\* finished; on a queued or running job its write sets cancellation_requested
\* and stage cancel_requested and leaves the persisted status, progress_pct and
\* error as they were.
C21_CancelJobFrame ==
  [][/\ ((CancelJobReads \/ CancelJobWrites) /\ Finished(file)) => file' = file
     /\ (CancelJobReads /\ Finished(file)) =>
          (cancel_response' = "Job is already finished." /\ cst' = <<>>)
     /\ (CancelJobReads /\ file # <<>> /\ ~Finished(file)) => cst' # <<>>
     /\ (CancelJobWrites /\ ~Finished(file)) =>
          /\ file' # <<>>
          /\ file'[1].cancellation_requested
          /\ file'[1].stage = "cancel_requested"
          /\ cancel_response' = "Cancellation requested."
          /\ file # <<>> =>
               /\ file'[1].status = file[1].status
               /\ file'[1].progress_pct = file[1].progress_pct
               /\ file'[1].error = file[1].error
    ]_jvars

\* C27: once the persisted status is done, failed or canceled, no step of the
\* worker or of cancel_job changes it.
C27_FinishedStatusIsStable ==
  [][Finished(file) => (file' # <<>> /\ file'[1].status = file[1].status)]_jvars

\* C28: the persisted progress_pct is within 0..100, and no write of the worker
\* or of cancel_job lowers it.
C28_ProgressNeverDecreases ==
  [][/\ file' # <<>> => file'[1].progress_pct \in 0..100
     /\ (file # <<>> /\ file' # <<>>) => file'[1].progress_pct >= file[1].progress_pct
    ]_jvars

\* ------------------------------------------------------------------ properties of the queueing requests

\* the jobs whose state file the step created
Created == {j \in JobIds : state_json[j] = <<>> /\ state_json'[j] # <<>>}

\* the job was handed to an executor
HandedOver(j) == j \in Range(background_tasks) \cup Range(rq_queue)

\* C22: retry_job is accepted only for a job whose status is failed or
\* canceled; for any other status it answers 400 and creates no job; an accepted
\* retry creates a new job with another id, in status queued, from the stored
\* request payload, and leaves the state of the original job unchanged.
C22_RetryOnlyFailedOrCanceled ==
  [][((http' # http \/ Created # {}) /\ http'[1].op = "retry") =>
       LET orig == http'[1].job_id
           new == http'[1].new_job_id
       IN /\ (state_json[orig] # <<>> /\ state_json[orig][1].status \notin {"failed", "canceled"}) =>
               /\ http'[1].status_code = 400
               /\ Created = {}
               /\ UNCHANGED <<state_json, debug_json, background_tasks, rq_queue>>
          /\ http'[1].status_code = 200 =>
               /\ state_json[orig] # <<>>
               /\ state_json[orig][1].status \in {"failed", "canceled"}
               /\ new \in JobIds \ {orig}
               /\ Created = {new}
               /\ state_json'[new][1].status = "queued"
               /\ debug_json'[new] # <<>>
               /\ debug_json'[new][1].request_payload = debug_json[orig][1].request_payload
               /\ debug_json'[new][1].retry_of = orig
               /\ \A j \in JobIds \ {new} :
                    state_json'[j] = state_json[j] /\ debug_json'[j] = debug_json[j]
    ]_avars

C22_Witness ==
  /\ http # <<>> /\ http[1].op = "retry" /\ http[1].status_code = 200
  /\ http[1].job_id = "J1" /\ http[1].new_job_id = "J2"
  /\ state_json["J1"] # <<>> /\ state_json["J1"][1].status = "canceled"
  /\ state_json["J2"] # <<>> /\ state_json["J2"][1].status = "queued"
  /\ debug_json["J2"][1].retry_of = "J1"

\* C24: enqueue_job hands the job to one executor or to none: mode rq with the
\* RQ job id and no background task when RQ is enabled and its enqueue succeeds;
\* mode background and one background task when RQ is disabled, or fails with
\* the fallback enabled; mode rq_error with the error text and no task when RQ
\* fails with the fallback disabled; no exception leaves it.
C24_OneExecutorOrNone ==
  [][\A j \in Created :
       LET tasks == Len(background_tasks') - Len(background_tasks)
           rq_jobs == Len(rq_queue') - Len(rq_queue)
           not_queued == http'[1].status_code # 200
           mode == state_json'[j][1].queue_mode
       IN /\ http'[1].status_code \in {200, 503}
          /\ tasks + rq_jobs \in {0, 1}
          /\ (use_rq /\ rq_jobs = 1) =>
               /\ ~not_queued /\ mode = "rq" /\ tasks = 0
               /\ state_json'[j][1].queue_job_id = <<"rq", j>>
               /\ rq_queue' = Append(rq_queue, j)
          /\ (~use_rq \/ (rq_jobs = 0 /\ fallback_background)) =>
               /\ ~not_queued /\ mode = "background" /\ tasks = 1 /\ rq_jobs = 0
               /\ state_json'[j][1].queue_job_id = <<>>
               /\ background_tasks' = Append(background_tasks, j)
          /\ (use_rq /\ rq_jobs = 0 /\ ~fallback_background) =>
               /\ http'[1].status_code = 503
               /\ http'[1].detail # ""
               /\ tasks = 0
    ]_avars

C24_Witness ==
  /\ use_rq /\ fallback_background
  /\ http # <<>> /\ http[1].op = "run" /\ http[1].status_code = 200
  /\ state_json["J1"] # <<>> /\ state_json["J1"][1].queue_mode = "rq"
  /\ state_json["J2"] # <<>> /\ state_json["J2"][1].queue_mode = "background"
  /\ rq_queue = <<"J1">> /\ background_tasks = <<"J2">>

\* C29: every job whose persisted status is queued was handed to a worker (an
\* RQ job or a background task); a request that ends with 503 leaves no job in
\* status queued behind.
C29_QueuedJobsHaveAWorker ==
  \A j \in JobIds :
    (state_json[j] # <<>> /\ state_json[j][1].status = "queued") => HandedOver(j)

\* ------------------------------------------------------------------ properties of the requests on a draft

\* the step is a request (the executor's steps change state.json)
RequestStep == state_json' = state_json /\ http' # <<>>

\* C26: save_draft, rebuild_job_pdf, quality_fix_job and regenerate_section
\* answer 400 for a job whose persisted status is queued or running and leave
\* report.txt as it was; they are accepted only for the status done, failed or
\* canceled; get_draft answers editable = true exactly for these three.
C26_EditOnlyAfterCompletion ==
  [][RequestStep =>
       LET r == http'[1]
           job == r.job_id
       IN job \in JobIds /\ state_json[job] # <<>> =>
            LET status == state_json[job][1].status
            IN /\ r.op \in {"save_draft", "rebuild", "quality_fix", "regenerate"} =>
                    /\ status \in {"queued", "running"} =>
                         (r.status_code = 400 /\ UNCHANGED <<report_txt, pdf, debug_json>>)
                    /\ r.status_code = 200 => status \in {"done", "failed", "canceled"}
                    /\ (report_txt' # report_txt \/ pdf' # pdf) =>
                         status \in {"done", "failed", "canceled"}
               /\ r.op = "get_draft" =>
                    /\ r.status_code = 200
                    /\ r.editable <=> status \in {"done", "failed", "canceled"}
    ]_avars

C26_Witness ==
  /\ http # <<>> /\ http[1].op = "regenerate" /\ http[1].status_code = 400
  /\ http[1].job_id = "J1"
  /\ state_json["J1"][1].status = "running"
  /\ report_txt["J1"] = <<>>

\* C30: an accepted regenerate_section changes the target section only: for
\* every other header of the template the body split from the new report is
\* the body split from the old report, and the target's body is the trimmed
\* reply of the generation backend.
C30_RegenerateChangesTargetOnly ==
  [][(RequestStep /\ http'[1].op = "regenerate" /\ http'[1].status_code = 200) =>
       LET job == http'[1].job_id
           target == http'[1].section
           headers == JobTemplate.writer_format
           old == split_by_headers(report_txt[job], headers)
           new == split_by_headers(report_txt'[job], headers)
       IN /\ \A h \in Range(headers) \ {target} : new[h] = old[h]
          /\ new[target] = http'[1].new_body
    ]_avars

\* ------------------------------------------------------------------ properties of the rate limiter

\* the calls of the address that passed at a time from t1 to t2
PassedWithin(ip, t1, t2) ==
  Cardinality({i \in DOMAIN passed[ip] : t1 <= passed[ip][i] /\ passed[ip][i] <= t2})

\* no window of RATE_LIMIT_WINDOW_SECONDS holds more than the maximum
WindowsWithinMax ==
  \A ip \in Clients : \A t \in 0..MaxClock :
    PassedWithin(ip, t, t + RATE_LIMIT_WINDOW_SECONDS) <= RATE_LIMIT_MAX_REQUESTS

\* q2 is what is left of q1 after dropping times from its front
IsSuffix(q2, q1) ==
  Len(q2) <= Len(q1) /\ q2 = SubSeq(q1, Len(q1) - Len(q2) + 1, Len(q1))

\* C23: with the rate limit enabled, at most RATE_LIMIT_MAX_REQUESTS calls of
\* an address pass within any window of RATE_LIMIT_WINDOW_SECONDS; a call that
\* arrives while the window holds the maximum is answered 429 and not recorded;
\* a call changes the bucket of its own address only.
C23_AtMostMaxPerWindow ==
  [][(RATE_LIMIT_ENABLED /\ monotonic' = monotonic /\ rate_response' # <<>>) =>
       LET caller == rate_response'[1]
           full == PassedWithin(caller, monotonic - RATE_LIMIT_WINDOW_SECONDS, monotonic)
                     >= RATE_LIMIT_MAX_REQUESTS
       IN /\ WindowsWithinMax'
          /\ full => /\ rate_response'[2] = 429
                      /\ passed' = passed
                      /\ IsSuffix(RATE_LIMIT_BUCKETS'[caller], RATE_LIMIT_BUCKETS[caller])
          /\ rate_response'[2] = 429 => full
          /\ \A ip \in Clients \ {caller} :
               /\ RATE_LIMIT_BUCKETS'[ip] = RATE_LIMIT_BUCKETS[ip]
               /\ passed'[ip] = passed[ip]
    ]_rvars

C23_Witness ==
  /\ RATE_LIMIT_ENABLED
  /\ monotonic = MaxClock
  /\ rate_response = <<"a", 429>>
  /\ PassedWithin("a", monotonic - RATE_LIMIT_WINDOW_SECONDS, monotonic) = RATE_LIMIT_MAX_REQUESTS
  /\ Len(passed["a"]) > RATE_LIMIT_MAX_REQUESTS
  /\ passed["b"] # <<>>

====
